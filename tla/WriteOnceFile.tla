---------------------------- MODULE WriteOnceFile ----------------------------
(***************************************************************************)
(* What a PKD2 file promises to whoever opens it, at any moment and also   *)
(* after its writer died: it cannot be opened, or it is empty, or it holds *)
(* everything the writer accepted, the last trajectory of every seed.      *)
(* Once a device has failed nothing is promised any more.                  *)
(***************************************************************************)
CONSTANTS Ids, Versions, None, Unreadable, Spoilt

VARIABLES accepted,  \* the last version of every seed the writer accepted
          contents   \* what a reader finds

fileVars == <<accepted, contents>>

Empty == [i \in Ids |-> None]

FileInit == accepted = Empty /\ contents = Unreadable

Create == contents = Unreadable /\ contents' = Empty /\ UNCHANGED accepted

Spoil == contents' = Spoilt /\ UNCHANGED accepted

\* Nothing is accepted once something has been published.
Accept(i, v) ==
  /\ contents \in {Empty, Spoilt}
  /\ accepted' = [accepted EXCEPT ![i] = v]
  /\ UNCHANGED contents

Publish == contents = Empty /\ contents' = accepted /\ UNCHANGED accepted

FileNext == Create \/ Publish \/ Spoil \/ \E i \in Ids, v \in Versions : Accept(i, v)

FileSpec == FileInit /\ [][FileNext]_fileVars

=============================================================================

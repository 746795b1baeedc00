----------------------------- MODULE NetcdfFile -----------------------------
(***************************************************************************)
(* What NetCDFProcessor, ncdf_utils.hpp, hands out of one file.            *)
(*                                                                         *)
(* A file is a record of its times, their unit, and its variables; a       *)
(* variable has its packing attributes and one slice (the raw values at    *)
(* all grid points) for every time.  Any read may fail: an error while     *)
(* reading the times or a variable is swallowed by the loader, and what    *)
(* was read before it stays.                                               *)
(***************************************************************************)
EXTENDS Integers, Sequences, FiniteSets, FiniteSetsExt

CONSTANT NaN

\* Seconds in the unit of a time variable; unknown units are kept as they are.
Seconds(unit) == CASE unit = "hours" -> 3600 [] unit = "days" -> 86400 [] OTHER -> 1
TimesOf(f)    == [i \in DOMAIN f.times |-> f.times[i] * Seconds(f.unit)]

\* A constant converted to the variable's type: signed bytes, or a type that
\* holds it.
Narrowed(x, bits) == IF bits = 8 THEN ((x + 128) % 256) - 128 ELSE x

\* _FillValue, else missing_value, else -30000 in the variable's type.
Fallback       == -30000
MissingRaw(v)  ==
  IF v.fill # <<>> THEN v.fill[1]
  ELSE IF v.missing # <<>> THEN v.missing[1] ELSE Narrowed(Fallback, v.bits)
Unpacked(v, x) == IF x = MissingRaw(v) THEN NaN ELSE x * v.scale + v.offset

\* What may have been read: the times or not, and the first slices of each
\* variable, for which the times are needed.
Readings(f, names) ==
  {r \in [times : BOOLEAN, slices : [names -> 0 .. Len(f.times)]] :
     /\ \A n \in names : n \notin DOMAIN f.vars => r.slices[n] = 0
     /\ r.times \/ \A n \in names : r.slices[n] = 0}
IsWhole(r, f) ==
  /\ r.times
  /\ \A n \in DOMAIN r.slices \cap DOMAIN f.vars : r.slices[n] = Len(f.times)

\* The loader's map from the times of a variable to its values, unpacked; of
\* two slices with one time the later one stays.
ReadTimes(f, r, n) == {TimesOf(f)[i] : i \in 1 .. r.slices[n]}
SliceAt(f, r, n, t) ==
  LET raw == f.vars[n].data[Max({i \in 1 .. r.slices[n] : TimesOf(f)[i] = t})]
  IN  [k \in DOMAIN raw |-> Unpacked(f.vars[n], raw[k])]

\* getVariableDataAtTime throws if there is none.
HasSlice(f, r, n, t) == t \in ReadTimes(f, r, n)

=============================================================================

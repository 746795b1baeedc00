------------------------------ MODULE Pkd2Codec ------------------------------
(***************************************************************************)
(* The block of one trajectory, fixed_point_pkd2.hpp: the first sample in  *)
(* ticks, then differences in ticks, each rounded by itself.  A longitude  *)
(* is first brought next to its predecessor, so that differences stay      *)
(* small where a path crosses the date line; a latitude is clamped.  The   *)
(* velocity file is written with the same code, u for longitude and v for  *)
(* latitude.                                                               *)
(*                                                                         *)
(* Angles are counted in units, of which a tick has Sub, so that rounding  *)
(* can be seen.  An action encodes one more sample, and a reader's sums    *)
(* are carried along: at any moment the samples so far are a whole block.  *)
(* The rounding of floating-point sums is left out.                        *)
(***************************************************************************)
EXTENDS Integers

CONSTANTS
  Sub,         \* units in a tick
  Pi,          \* units in a half turn
  Lons, Lats,  \* the samples: units, or NaN
  NaN,
  MinTick, MaxTick,  \* the range of int32_t
  MaxSamples   \* bound on the length of a block

ASSUME CodecAssumption ==
  /\ Sub \in Nat \ {0} /\ Pi \in Nat \ {0} /\ Pi % 2 = 0 /\ MaxSamples \in Nat
  /\ NaN \notin Int
  /\ Lons \subseteq Int \cup {NaN} /\ Lats \subseteq Int \cup {NaN}
  /\ MinTick \in Int /\ MaxTick \in Int
  /\ MinTick * Sub < -6 * Pi /\ 6 * Pi < MaxTick * Sub

VARIABLES
  n,             \* samples encoded so far
  lon, lat,      \* the last of them, as it was given
  prevL, prevB,  \* prevL and prevB of emit_block
  L, B           \* what the reader has summed up, in ticks

blockVars == <<n, lon, lat, prevL, prevB, L, B>>

Abs(x) == IF x < 0 THEN -x ELSE x

\* llround of a quotient: halves are rounded away from zero.
Rounded(x, d) == IF x >= 0 THEN (2 * x + d) \div (2 * d) ELSE -((d - 2 * x) \div (2 * d))

\* to_q.  What llround makes of NaN is unspecified; in practice it is the least
\* integer, which the clamp turns into MinTick, or zero.
TruncatedTicks(x) == {IF x = NaN THEN 0 ELSE IF x >= 0 THEN x \div Sub ELSE -((-x) \div Sub)}
Ticks(x) ==
  IF x = NaN THEN {MinTick, 0}
  ELSE LET q == Rounded(x, Sub)
       IN  {IF q > MaxTick THEN MaxTick ELSE IF q < MinTick THEN MinTick ELSE q}

Minus(x, y) == IF NaN \in {x, y} THEN NaN ELSE x - y

ClampLat(r) ==
  IF r = NaN THEN NaN
  ELSE IF r < -(Pi \div 2) THEN -(Pi \div 2) ELSE IF r > Pi \div 2 THEN Pi \div 2 ELSE r

\* unwrap_pi: into the half-open interval from -Pi, excluded, to Pi.
UnwrapPi(r) == IF r = NaN THEN NaN ELSE ((r + Pi - 1) % (2 * Pi)) - Pi + 1

\* unwrap_follow: at most one turn towards the previous longitude.
UnwrapFollowEast(prev, r) ==
  LET s == UnwrapPi(r) d == Minus(s, prev) IN
  IF d # NaN /\ d < -Pi THEN s + 2 * Pi ELSE s
UnwrapFollow(prev, r) ==
  LET s == UnwrapPi(r) d == Minus(s, prev) IN
  IF d = NaN THEN s
  ELSE IF d > Pi THEN s - 2 * Pi ELSE IF d < -Pi THEN s + 2 * Pi ELSE s

\* wrap_lon, by which the seed loader undoes the turns.
Fmod(x, m)         == IF x >= 0 THEN x % m ELSE -((-x) % m)
WrapLonEastOnly(r) == LET s == Fmod(r, 2 * Pi) IN IF s > Pi THEN s - 2 * Pi ELSE s
WrapLon(r) ==
  LET s == Fmod(r, 2 * Pi) IN
  IF s <= -Pi THEN s + 2 * Pi ELSE IF s > Pi THEN s - 2 * Pi ELSE s

-----------------------------------------------------------------------------

\* read_traj and decode_block_first_last: the sums, as angles.
LonRead == L * Sub
LatRead == B * Sub

BlockInit ==
  /\ n = 0 /\ lon = 0 /\ lat = 0
  /\ prevL = 0 /\ prevB = 0 /\ L = 0 /\ B = 0

\* The header of the block holds the first sample.
First(l, b) ==
  /\ n = 0
  /\ prevL' = UnwrapPi(l) /\ prevB' = ClampLat(b)
  /\ L' \in Ticks(prevL') /\ B' \in Ticks(prevB')
  /\ lon' = l /\ lat' = b /\ n' = 1

\* Every other one adds a difference.
Further(l, b) ==
  /\ n \in 1 .. MaxSamples - 1
  /\ prevL' = UnwrapFollow(prevL, l) /\ prevB' = ClampLat(b)
  /\ \E q \in Ticks(Minus(prevL', prevL)) : L' = L + q
  /\ \E q \in Ticks(Minus(prevB', prevB)) : B' = B + q
  /\ lon' = l /\ lat' = b /\ n' = n + 1

BlockNext == \E l \in Lons, b \in Lats : First(l, b) \/ Further(l, b)

BlockSpec == BlockInit /\ [][BlockNext]_blockVars

-----------------------------------------------------------------------------
(***************************************************************************)
(* Properties                                                              *)
(***************************************************************************)

\* Half a tick for every sample so far.
Within(drift) == 2 * Abs(drift) <= n * Sub

\* Two angles differ by a small drift and some number of turns.
SameAngle(x, y) == \E k \in -2 .. 2 : Within(x - y + k * 2 * Pi)

\* Rounding every difference by itself costs half a tick per sample at most:
\* the reader of sample n gets the latitude and, up to full turns, the
\* longitude that was given (tests/test_pkd2_roundtrip.cpp allows 2.1 ticks
\* for four samples).  However often a path winds around the pole, the writer's
\* longitude stays within three half turns.
ReadsBack ==
  n > 0 => /\ prevL \in -3 * Pi .. 3 * Pi
           /\ SameAngle(LonRead, lon)
           /\ Within(LatRead - ClampLat(lat))

\* The longitude does not jump by a turn at the date line: a step is the
\* short way round, unless it would leave the three half turns.
ShortWay ==
  n > 0 => \/ Abs(prevL' - prevL) <= Pi
           \/ \E s \in {-2 * Pi, 2 * Pi} :
                Abs(prevL' + s - prevL) <= Pi /\ Abs(prevL' + s) >= 3 * Pi
Continuous == [][ShortWay]_blockVars

\* What the seed loader makes of the last sample lies in the interval that
\* all longitudes are kept in, and is the position that was written.
SeedEnds ==
  n > 0 => LET r == WrapLon(LonRead) IN
           -Pi < r /\ r <= Pi /\ SameAngle(r, lon)

\* What the velocity file holds of a sample whose velocity is known is that
\* velocity ("lon channel = u, lat channel = v (units: m/s)",
\* hpc_trajectories.cpp).
VelocityReadsBack ==
  n > 0 => /\ lon # NaN => SameAngle(LonRead, lon)
           /\ lat # NaN => Within(LatRead - ClampLat(lat))

=============================================================================

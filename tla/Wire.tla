-------------------------------- MODULE Wire --------------------------------
(***************************************************************************)
(* What the SDKs' two transports make of a request or an answer.  Over     *)
(* gRPC it is converted to the wire's messages and back (api/proto/        *)
(* etcdisc/v1/convert.go): numbers become int32, maps without entries      *)
(* absent.  HTTP carries JSON of the same Go structures: nothing changes.  *)
(* Strings, 64-bit numbers, byte slices and times come through either.     *)
(***************************************************************************)
EXTENDS Model

CONSTANT IntBits    \* width of the wire's numbers: 32, less for TLC

ASSUME IntBitsAssumption == IntBits \in Nat \ {0}

Half == 2 ^ (IntBits - 1)

\* The limits of validation are within the width.
ASSUME WidthAssumption == Half \in Nat /\ MaxPort < Half

Int32(n) == ((n + Half) % (2 * Half)) - Half

Fits(n) == n \in (-Half)..(Half - 1)

CloneStringMap(m) == IF Entries(m) = {} THEN Nil ELSE m

\* Optional numbers travel in wrappers.
OptionalInt32(n) == IF n = Nil THEN Nil ELSE Int32(n)

ProbeConfigOverWire(c) == [c EXCEPT !.port = Int32(@)]

InstanceOverWire(i) ==
    [i EXCEPT !.weight   = Int32(@),
              !.port     = Int32(@),
              !.metadata = CloneStringMap(@),
              !.probe    = ProbeConfigOverWire(@)]

UpdateOverWire(u) ==
    [u EXCEPT !.weight   = OptionalInt32(@),
              !.metadata = CloneStringMap(@)]

\* Mutant: the filter's group does not make it onto the wire.
FilterOverWireUngrouped(f) == [f EXCEPT !.metadata = CloneStringMap(@), !.group = ""]

FilterOverWire(f) == [f EXCEPT !.metadata = CloneStringMap(@)]
=============================================================================

-------------------------------- MODULE Store -------------------------------
(***************************************************************************)
(* What cclive promises about the files it writes, however often transfers *)
(* fail, are interrupted, retried or resumed: a file only ever grows by    *)
(* one byte at its end, that byte is the one its body has at that offset,  *)
(* and what a file already holds is given up only where --overwrite asks   *)
(* for it.                                                                 *)
(***************************************************************************)
EXTENDS Naturals, Sequences

CONSTANTS Path, Source
VARIABLES disk, overwrite

Content == Seq(Source \X Nat)

\* Every byte of a file is at the offset it has in the body it came from.
WellPlaced(f) == \A i \in 1 .. Len(f) : f[i][2] = i

Init ==
  /\ disk \in [Path -> Content]
  /\ \A p \in Path : WellPlaced(disk[p])
  /\ overwrite \in BOOLEAN

Extend(p, s) ==
  /\ disk' = [disk EXCEPT ![p] = Append(@, <<s, Len(@) + 1>>)]
  /\ UNCHANGED overwrite

Discard(p) ==
  /\ overwrite
  /\ disk' = [disk EXCEPT ![p] = <<>>]
  /\ UNCHANGED overwrite

Next == \E p \in Path : Discard(p) \/ \E s \in Source : Extend(p, s)

vars == <<disk, overwrite>>
Spec == Init /\ [][Next]_vars
=============================================================================

------------------------------- MODULE Framing -------------------------------
(***************************************************************************)
(* How the cipher frames a text before it seals it: two bytes that hold    *)
(* the length, the text, and zeros up to a multiple of Align.  Only the    *)
(* lengths are modelled; the authenticated encryption gives back the frame *)
(* it was given or an error.                                               *)
(***************************************************************************)
EXTENDS Integers

CONSTANTS
  Width,    \* of the numbers that two bytes hold: 65536
  Align,    \* alignment
  Lengths,  \* of texts; bounds them for TLC
  Invalid,  \* ErrInvalidData
  Panic     \* slice bounds out of range

ASSUME WidthAssumption   == Width \in Nat /\ Width > 2
ASSUME AlignAssumption   == Align \in Nat \ {0}
ASSUME LengthsAssumption == Lengths \subseteq Nat
ASSUME OutcomeAssumption == {Invalid, Panic} \cap Nat = {}

Frame(n) ==
  LET total == 2 + n
  IN  [stored |-> n % Width, size |-> total + ((Align - (total % Align)) % Align)]

(* The slice's end is computed with two bytes too.                         *)
Unframe(f) ==
  IF f.size < 2 \/ f.stored > f.size - 2 THEN Invalid
  ELSE IF (2 + f.stored) % Width < 2 THEN Panic
  ELSE ((2 + f.stored) % Width) - 2

-----------------------------------------------------------------------------
(* A sealed text opens to itself if it is shorter than Width - 2, and      *)
(* never otherwise: the two lengths below Width panic, longer texts open   *)
(* to shorter ones or panic (aead.go:61, aead.go:92).                      *)
OpensToItself == \A n \in Lengths : Unframe(Frame(n)) = n <=> n < Width - 2

(* The size of a sealed text only tells the number of blocks it needs: no  *)
(* two texts that need as many differ in size.                             *)
SizeTellsBlocks ==
  \A n \in Lengths : /\ Frame(n).size % Align = 0
                     /\ Frame(n).size - Align < n + 2 /\ n + 2 <= Frame(n).size
=============================================================================

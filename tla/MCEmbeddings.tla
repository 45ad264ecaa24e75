---------------------------- MODULE MCEmbeddings ----------------------------
(* An instance of Embeddings for TLC: two spellings of one text, and the   *)
(* two models of the build with their dimensions.                          *)
EXTENDS Embeddings

AllModels == {"bge", "fake"}
Dims == [m \in AllModels |-> IF m = "fake" THEN 16 ELSE 384]
Spaces == {" ", "\t"}
Spellings == {<<"a", " ", "b">>, <<" ", "a", "\t", " ", "b">>}

(* "Idempotent" (canonical.rs): for all texts of up to five characters the *)
(* canonical form is its own, starts and ends with no blank, holds no two  *)
(* in a row, and keeps the other characters in their order.                *)
ASSUME CanonicaliseNormalises ==
    \A x \in BoundedSeq({"a", "b", " ", "\t"}, 5) :
        LET y == Canonicalise(x)
            Solid(c) == c \notin Spaces
        IN  /\ Canonicalise(y) = y
            /\ SelectSeq(y, Solid) = SelectSeq(x, Solid)
            /\ \A k \in DOMAIN y :
                  /\ y[k] # "\t"
                  /\ y[k] = " " => k \in 2..(Len(y) - 1) /\ y[k + 1] # " "
=============================================================================

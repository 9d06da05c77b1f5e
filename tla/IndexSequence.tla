--------------------------- MODULE IndexSequence ---------------------------
(* What a chain of fast_index.h promises to who follows it from its head:   *)
(* the indices it holds, each of them once, in the order in which they came. *)
EXTENDS Naturals, SequencesExt

CONSTANT Tokens

VARIABLE chain

PushBack(i) ==
    /\ \A k \in DOMAIN chain : chain[k] # i
    /\ chain' = Append(chain, i)

\* The place of i in the chain closes.
Leave(i) ==
    \E k \in DOMAIN chain :
        /\ chain[k] = i
        /\ chain' = RemoveAt(chain, k)

ChainSpec ==
    /\ chain = <<>>
    /\ [][\E i \in Tokens : PushBack(i) \/ Leave(i)]_chain
=============================================================================

-------------------------- MODULE MCCompressSearch --------------------------
(***************************************************************************)
(* Instances of CompressSearch.tla for TLC.                                *)
(***************************************************************************)
EXTENDS CompressSearch

CONSTANTS TextLength, LongLength, LongWords

MCTuples == [1 .. 3 -> {0, 1}]

\* Every text of two letters, and longer ones that repeat a word: chain_data is
\* collected several times.
MCInputs == [1 .. TextLength -> {0, 1}] \cup
            { [i \in 1 .. LongLength |-> word[1 + (i % Len(word))]] :
                  word \in UNION { [1 .. n -> {0, 1}] : n \in LongWords } }

\* One chain for all tuples; a hash that mixes different tuples; none mixed.
MCHashes == { [t \in MCTuples |-> 0],
              [t \in MCTuples |-> (t[1] + t[2] + t[3]) % 2] }
=============================================================================

---------------------------- MODULE MCChatStore ----------------------------
(***************************************************************************)
(* A TLC instance of ChatStore.                                            *)
(***************************************************************************)
EXTENDS ChatStore, TLC

\* A text of a user or of the assistant, and a message of a tool chain.
MCMessages == {"text", "tool"}
MCFoldable == {"text"}

\* Compaction tasks and peers are interchangeable.
StoreSymmetry == Permutations(Jobs) \cup Permutations(Peers)
=============================================================================

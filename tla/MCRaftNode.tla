----------------------------- MODULE MCRaftNode -----------------------------
(* RaftNode for TLC: nodes and commands are interchangeable. *)
EXTENDS RaftNode, TLC

Symmetry == Permutations(Server) \cup Permutations(Command \ {Delete})

\* Fields that a node in its present role can only overwrite, never read.
Visible(s) ==
    [s EXCEPT !.votes_received = IF s.role = "Follower" THEN {} ELSE @,
              !.next_index = IF s.role = "Leader" THEN @ ELSE << >>,
              !.match_index = IF s.role = "Leader" THEN @ ELSE << >>]

View == <<[i \in Server |-> Visible(core[i])], disk, net, store, panicked,
          restarts, history>>
=============================================================================

----------------------------- MODULE MCTracker -----------------------------
(* Instances of Tracker for TLC.                                           *)
EXTENDS Tracker, Naturals, FiniteSets, TLC

\* The password is the same for everyone and hashes are compared only for
\* equality, so users, peers, names and hashes are interchangeable.
Symmetry == Permutations(Users) \cup Permutations(Peers)
              \cup Permutations(Names) \cup Permutations(Hashes)

\* Bounds: how many downloads were ever started, and how many notices are
\* under way; with two, an add_file and a complete can overtake each other.
MaxDownloads == 1
MaxNotices == 2

FewDownloads ==
  /\ Cardinality({<<u, f>> \in Users \X (Groups \X Names) :
                    f \in downloadingFile[u] \cup downloadedFile[u]})
       <= MaxDownloads
  /\ Cardinality(notices) <= MaxNotices
=============================================================================

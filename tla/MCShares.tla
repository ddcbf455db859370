------------------------------ MODULE MCShares ------------------------------
(* Two datasets of one last component, two calls at once, one user of each kind, and a *)
(* restored table that share.set would refuse.                                         *)
EXTENDS Shares, TLC

CallSymmetry == Permutations(Calls)

MCNameOf == [d \in Datasets |-> "media"]
MCWishes == {[smb |-> TRUE, listed |-> TRUE, who |-> Users \ Foreign],
             [nfs |-> TRUE, clients |-> Clients \ BadClients],
             [smb |-> FALSE]}
MCShare(cs) == [smb |-> TRUE, nfs |-> TRUE, clients |-> cs, listed |-> TRUE, who |-> {}]
MCTables == {[shares |-> [d \in Datasets |-> MCShare(Clients)], policies |-> {}, users |-> {}],
             [shares |-> [d \in Datasets |-> [MCShare(Clients \ BadClients) EXCEPT !.who = Users]],
              policies |-> Datasets, users |-> Users]}
============================================================================

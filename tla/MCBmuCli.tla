----------------------------- MODULE MCBmuCli -----------------------------
(* Instance of BmuCli for TLC. *)
EXTENDS BmuCli, TLC

CONSTANTS p1, p2

\* Two sources with the same last component.
MCProjectName == [p \in {p1, p2} |-> "docs"]

MCInput == {[git |-> FALSE, bmu |-> TRUE, text |-> "tmp"], [git |-> TRUE, bmu |-> FALSE, text |-> "log"]}

\* Experimental: 2.18.7, 2.19.1 and 2.19.3.
MCReleases == {{<<2, 18, 6>>, <<2, 18, 7>>}, {<<2, 18, 8>>, <<2, 19, 1>>, <<2, 19, 3>>}}
MCGuis == {<<2, 18, 8>>, <<2, 19, 1>>}
MCInstalled == {<<2, 4, 0>>, <<2, 10, 0>>, <<2, 16, 0>>, <<2, 18, 7>>}

MCSymmetry == Permutations(Bin) \cup Permutations(Data) \cup Permutations(Source)

=============================================================================

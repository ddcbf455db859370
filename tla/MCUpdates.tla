----------------------------- MODULE MCUpdates -----------------------------
EXTENDS Updates

\* The second keeps the first one's drive; the versions are not in the order of their text.
MCReleases == << [version |-> <<0, 9, 1>>,  drive |-> "1.4.0"],
                 [version |-> <<0, 10, 0>>, drive |-> "1.4.0"],
                 [version |-> <<0, 10, 1>>, drive |-> "1.5.0"] >>
=============================================================================

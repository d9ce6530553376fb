---------------------------- MODULE MCRunForest ----------------------------
EXTENDS RunForest

\* Two steps: the first leads to the second when it says so.
MCTransitions == [build |-> <<[when |-> {"more"}, to |-> "check"]>>,
                  check |-> <<>>]
=============================================================================

---------------------------- MODULE MCInference ----------------------------
EXTENDS Inference
CONSTANTS u1, u2, b1
MCJobs == {u1, u2, b1}
MCUser == {u1, u2}
MCBoards == {[temp |-> "unread", flags |-> FALSE], [temp |-> "hot", flags |-> FALSE],
             [temp |-> "warm", flags |-> TRUE]}
============================================================================

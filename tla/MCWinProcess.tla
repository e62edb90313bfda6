---------------------------- MODULE MCWinProcess ----------------------------
EXTENDS WinProcess

EveryFault == AllFaults

Option(name, value) == [name |-> name, value |-> value, given |-> TRUE]
Without(name) == [name |-> name, value |-> 0, given |-> FALSE]

PlainCommandLine == {<<>>}

\* Nothing said; more threads than processors; as many as make the product
\* negative as an int; an array whose size wraps around, to less than its
\* threads need and to nothing; no threads; no accepts wanted; values missing.
SomeCommandLines == {
  <<>>,
  <<Option("ratio", 2), Option("port", 80)>>,
  <<Option("ratio", -1)>>,
  <<Option("ratio", 4)>>,
  <<Option("unknown", 0), Option("ratio", 0), Option("ratio", 3)>>,
  <<Option("ratio", 12)>>,
  <<Option("accepts", -5), Option("limit", 9)>>,
  <<Option("root", 0), Without("root")>>,
  <<Without("limit")>> }
=============================================================================

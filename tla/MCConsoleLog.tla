----------------------------- MODULE MCConsoleLog -----------------------------
(***************************************************************************)
(* The records and the roles that TLC checks ConsoleLog with: a record     *)
(* without a message, which just fits a buffer; one with an attribute and  *)
(* its source; one whose message is as long as a buffer.                   *)
(***************************************************************************)
EXTENDS ConsoleLog, TLC

MCRecords == {[level |-> Size - 2, msg |-> 0, attrs |-> 0, source |-> FALSE],
              [level |-> 1, msg |-> 0, attrs |-> 1, source |-> TRUE],
              [level |-> 1, msg |-> Size, attrs |-> 0, source |-> FALSE]}
\* Two goroutines of the log package, or one user of the writer by itself.
MCRoles == [Writers -> {"derive", "log"}] \cup
           {[g \in Writers |-> IF g = u THEN "user" ELSE "none"] : u \in Writers}
SymmetricLog == Permutations(Writers)
===============================================================================

----------------------------- MODULE MCProcesses ----------------------------
EXTENDS Processes
MCTexts  == {<<5>>, <<5, 6, 7>>}
MCNested == [kind |-> atype, shape |-> <<1>>,
             items |-> <<[kind |-> phrasetype, shape |-> <<>>, items |-> <<5>>]>>]
MCArrays == {[kind |-> 3, shape |-> <<2>>, items |-> <<5, 6>>], MCNested}
Program(ops, max) == [ops |-> ops, max |-> max]
MCPrograms ==
  {Program({"open", "close", "write", "read", "readln"}, 4),
   Program({"channel", "write", "flush", "read", "fill", "close"}, 4),
   Program({"channel", "block", "flush", "unblock"}, 6),
   Program({"pipe", "open", "close", "write", "flush", "ready"}, 4),
   Program({"spawn_child", "serve", "unblock"}, 3),
   Program({"spawn_cmd", "child_entry", "child_stream", "close"}, 3),
   Program({"spawn_cmd", "pipe"}, 3),
   Program({"spawn_shell", "interrupt_child", "child_status", "detached"}, 4),
   Program({"spawn_shell", "write", "flush"}, 3),
   Program({"spawn_cmd", "child_status", "detached"}, 5)}
=============================================================================

---------------------------- MODULE MCInterpreter ----------------------------
(* Instances of Interpreter for TLC. *)
EXTENDS Interpreter

\* Programs of tasks that catch no exception.
TaskOps == {"async", "join", "cobegin", "yield"}

\* Programs whose tasks share locks, are terminated by nondet and may fail.
LockOps == {"async", "nondet", "throw", "acquire", "release"}

\* Programs whose tasks share message queues, are terminated by nondet, and whose
\* exceptions are caught or not.
MsgQOps == {"async", "nondet", "throw", "catch", "enq", "wait"}

\* Programs of nondet expressions only.
NondetOps == {"nondet"}

\* Programs that wait for messages nobody sends.
WaitOps == {"async", "cobegin", "wait"}

=============================================================================

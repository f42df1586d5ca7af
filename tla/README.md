# TLA+ development for the UFO interpreter

UFO is a small functional language with green threads. This directory holds the
TLA+ modules that model its interpreter (C, under `src/src/` of the repository;
paths below are relative to that directory), the TLC configurations that check
them on small instances, and theorems checked by TLAPS.

## 1. Inventory of the system

One operating system process and one operating system thread execute everything.
What looks concurrent is cooperative: an `Evaluator` is a green thread, the
thread manager gives each one a slice of ten `any_eval` calls in turn, and all
the interleavings of the language come from there.

| Component | State | Operations | Interacts with | Hard behaviour | What makes it correct |
|---|---|---|---|---|---|
| Thread manager `etor/threadmanager.c` | run queue `_running` | add, block, unblock, terminate a thread; `runNextThread`, `runAll` | evaluators (status), every waiting queue | which threads are queued, once, in each status | the queue holds exactly the runnable threads; every one gets its turn |
| Evaluator `etor/evaluator.c` | `estack`, `ostack`, `env`, `threadStatus`, `blockingObject`, `waitingThreads`, `exception`, `tid` | `runSteps`, push/pop, `handleException`, `unblockWaitingThreads`, `saveEnv` | thread manager, GC (commits at each step) | `setjmp`/`longjmp`; re-initialisation after an uncaught exception | a join returns exactly when the task has terminated; the value on the stack is the expression's |
| Concurrent expressions `expr/async.c`, `expr/cobegin.c`, `expr/nondet.c`, `ns/task.c`, `io/sleep.c` | continuations on `estack` | spawn, join, cobegin, nondet, sleep | thread manager | continuations that run after other threads have changed what they look at | results are taken from terminated threads, terminated threads stay so |
| Lock `data/lock.c`, `ns/lock.c` | `lockedBy`, `waitingThreads` | acquire, release | thread manager | hand-over in one call | mutual exclusion, no lost wakeup, order of arrival |
| MsgQ `data/msgq.c`, `ns/msgq.c` | `messages`, `waitingThreads` | enq, wait, count | thread manager, operand stacks of others | delivery to a waiting thread | no message lost, duplicated, reordered, or left behind while somebody waits |
| REPL `repl/repl.c` | its evaluator, tokens, last value | read, tokenize, parse, eval, print | thread manager, GC | what is left blocked from one expression to the next | there is a value to print, and it is the expression's |
| Garbage collector `memory/gc.c` | `_spine`, `_committed`, `_permanentObjects`, `_roots`, marks, `GC_NEEDED` | alloc, commit, transfer to roots, mark, sweep | every object; called between two steps | when a collection may run; marks and lists between two collections | nothing reachable is freed, garbage is |
| Expression evaluation `expr/*.c`, `data/closure.c`, `data/triple.c` | frames and environments | let, letrec, let-in, if, do, loop, apply, match, try/catch | evaluator | environment restoration and tail calls, what a handler restores | equals a reference semantics |
| Data structures `data/queue.c`, `hashtable.c`, `list.c`, `array.c`, `string.c`, `stringbuffer.c`, `sequence.c`, `set.c`, `record.c`, `stream.c` | cells, buckets, segments | the usual ones | GC | boundaries: empty, full segment, resize, removal in a chain | each implements its abstract data type |
| Lexer `lexer/lexer.c`, parser `parser/parser.c`, `json/json_parser.c` | token list, global error state | tokenize, parse | REPL | backtracking and commit points | accepts the grammar, consumes what it reports |
| Events `ns/event.c` | subscriber table of an evaluator | subscribe, publish | evaluator | results of handlers on the operand stack | the operand stack is balanced |
| Method tables `methods/*.c`, types `data/any.c`, `X_deepCopy`, `X_freeVars`, `X_markChildren`, `X_show`, `X_match`, `X_isEqual`, `X_hashCode`, `X_compare` in `data/*.c` and `expr/*.c` | one table of functions per type, filled at start-up, with defaults | dispatch by type over the objects that an object holds | GC, parser, evaluator | a type that forgets one of its fields in one of its methods | the methods of a type agree with each other, and with the constructor |
| Primitives `ns/*.c`, I/O `io/*.c`, `data/file.c`, `data/tcp*.c`, FFI `ns/ffi.c`, start-up `main/*.c` | little or constant | argument checks and library calls | evaluator | `TS_Yield` while input is not there | - |

Components talk through direct calls. What they share is the evaluator objects:
a lock, a queue, a task that ends, or a nondet changes the status of *other*
threads and their membership in queues, and those threads see it when their next
slice starts. The hazards of this are listed in `PROJECT.json`.

## 2. Modules

    Scheduler  <-  Tasks  <-  Lock  \
                          <-  MsgQ  /  <-  Interpreter  <-  MCInterpreter
                                               ^   \
                              InterpreterProofs     INSTANCE FifoLock
                                               ^
                              InterpreterResults

    Heap  <-  HeapProofs
     ^ INSTANCE   ^ INSTANCE
    GC  <-  MCGC  |
        <-  GCProofs

    Syntax  <-  Evaluator  <-----------  MCEvaluator
            <-  Matching   <-             | INSTANCE
                           <-  Reference <
            <-  Programs   <-  MCEvaluator
    Evaluator, Programs  <-  EvaluatorProofs

    Answers  <-  Queue         \
             <-  StringBuffer  /  INSTANCE Fifo         \
             <-  HashTable        INSTANCE Dictionary    \
             <-  Arrays           INSTANCE Vector         \
             <-  Iterators                                 <-  MCData
                 Lexer            INSTANCE Lexemes        /
                 Parser  <-  Types  <-  Objects          /
    Queue, StringBuffer, HashTable  <-  ContainerProofs
    Arrays  <-  ArrayProofs  <-  IteratorProofs  ->  Iterators

An arrow `A <- B` means B EXTENDS A.

* **Scheduler** is the thread manager and the time slice of the evaluator. Its
  variables carry the C names (`running`, `status`, `blockingObject`,
  `waitingThreads`, `estack`, `tid`). `BeginSlice`, `EvalStep`, `FinishThread`,
  `EndSlice` are the pieces of `runNextThread` and `runSteps`; `AddThread`,
  `BlockThread`, `UnblockThread`, `TerminateThread` are the functions other
  components call. A frame of `estack` is "code" (any expression), or the
  continuation of a cobegin or a nondet, whose state matters to other threads.
  Loops that change other threads take one step per iteration: `WakeNext` is an
  iteration of `evaluator_unblockWaitingThreads`, with its bound read again from
  the queue that shrinks.
* **Tasks** is what a program does with threads: `Async` (also `task:spawn`),
  `Join`, `Cobegin`/`CobeginContinue`, `Nondet`/`NondetContinue`/`KillNext`,
  `Yield` (sleep and readLine), `Catch`, `Throw`, and `Compute`/`Return` for all
  the rest. A program is any sequence of these; `Ops` restricts which of them the
  programs of an instance use. `Longjmp` chooses between the two values `nSteps`
  may have after `longjmp`: it is an automatic variable changed after `setjmp`.
* **Lock** and **MsgQ** are the two synchronisation objects. `inside` and `rogue`
  (Lock), `sent`, `asked` and `got` (MsgQ) are history variables.
* **Interpreter** composes them under the REPL's loop and states the properties.
* **FifoLock** is what a set of locks promises: for each lock one line of threads,
  joined at its end, served at its head. Interpreter implements it with
  `line <- Line(l)`, the owner followed by the waiting threads.
* **GC** is the collector: the lists with their pointers, marks, and the loops of
  `gc_markRoots` and `gc_sweep` one iteration at a time. The program around it
  creates objects, assigns fields of objects it can reach, and drops its C
  variables at each commit. `Marks` is one call of `any_mark`, which stops at
  marked objects.
* **Heap** is the memory the collector promises: only what can no longer be
  reached is freed. GC implements it, with the root list and the permanent
  objects as its roots.
* **Syntax** are the expressions and values of the language as records, the few
  entries of the global environment the programs use, and what brackets find in
  arrays and lists.
* **Evaluator** is the machine that evaluates them, for the REPL's thread: one
  action per `*_eval` function and per continuation, which is one `any_eval` of
  `evaluator_runSteps`. `estack` holds frames (an expression and the environment
  it was pushed in, or `Dynamic`, the code's NIL), `ostack` the operands, `triples`
  the environment chains; an environment is the number of a triple, so that two
  closures that share a binding see each other's assignments. `PoppedEnv` is the
  environment that `evaluator_popExpr` leaves. An exception, from any action, goes
  through `ThrowObj`: `Caught` is the search of `evaluator_handleException` with the
  rule the handler applies, `Uncaught` its end, which initializes the evaluator again and
  gives back its environment. `Orders` is the order in which a
  hash set lists identifiers, which letrec depends on. `records` and `subscribers` are the two tables of the
  evaluator that expressions change; an uncaught exception empties both
  (`evaluator.c:169`, `71` and `73`). Collections are values here, not objects that
  can be changed: the reassignment of an element is left out. Left out, by guards that the
  code does not have, are also what an index finds in a table, in a text or before an
  array (`LeftOut`), a field without a value (`Unvalued`), the characters of a text in a
  loop, and macros with fewer than two arguments. What a thread shares with
  others, and the ends of slices, are in Interpreter.
* **Programs** says which objects there are: of each type what an object has, with all its
  parts in a given set (`IsObject`), and what it means that such a set has the parts of
  all its objects (`Closed`). Programs are such sets, and so is what evaluation makes of them.
* **Matching** is `any_match`, a recursive operator. It is a constant of Evaluator
  (`Match`), so that no recursive operator is reached from there.
* **Reference** says what expressions mean, without stacks or frames: a big-step
  evaluation with environments as functions and a store. It is the abstract
  specification of Evaluator. What scope each construct gives to its bindings is the
  code's (bindings made by `let` inside `do`, `if` last until the enclosing call
  ends). It takes from Syntax what brackets find and how arguments are counted. The
  first two places of its store are the types of records and the subscribers; `Answer`
  empties both after an exception that nothing catches, and keeps the rest of the store.
* **Queue** is `data/queue.c`: the chain of list cells, `head`, `tail` and
  `queueCount` (the C fields), with `Enq`, `Deq` and `QueuePeek`. `held` is a cell
  of the chain that the program got by `asList` or an iterator: it shares the cells
  with the queue, and sees what is enqueued later.
* **StringBuffer** is `data/stringbuffer.c`: the chain of segments with their two
  indexes. When the only segment is read to its end the code frees it and keeps
  two bad pointers to it; the model stops at their use (`UseOfNoSegment`), which is
  undefined.
* **HashTable** is `data/hashtable.c`, on which sets, namespaces and the
  interned symbols are built: buckets, links with the newest in front, growth at the loading
  factor, copy, removal. A key without a hash code (a list, a term, a real number)
  goes to bucket 0 each time it is put, and is never found.
* **Fifo** and **Dictionary** are what these promise. Queue and StringBuffer both
  implement Fifo (`line` is the elements by the count, or the characters written and
  not read); HashTable implements Dictionary, whose removal may lose other keys,
  because the code's does.
* **Arrays** is `data/array.c` with the primitives of `ns/array.c` that change an
  array: a primitive is called with arguments it has found to be right (`arrayCall`),
  and then does its loops; `threw` says that it ended in an exception. **Vector** is
  what it promises. Two elements may have the same rank without being equal, so that a
  sort that is not stable can be seen.
* **Iterators** is what a loop goes over (lists, proper and improper, arrays, strings,
  queues, sets, sequences, integers, and the single object of the default method), by an
  iterator (`IteratorNext`) or by the continuations of `list:map` and `array:map`
  (`ListMap`, `ArrayMap`), one action per element. The other readers of the same object
  (`count`, `get`, `contains`, ranges, `string:locate`) are operators.
* **Lexer** is `lexer/lexer.c` with the string stream it reads (`data/stringstream.c`):
  one action step per character, one definition per state of the C machine, the
  character that is taken back (`ungetChar`), and the place at which a token begins
  (`pos`, `col`, `line`). The text is chosen while it is read, from the characters of
  an `alphabet` and no longer than that says. In a comment and
  behind a backslash the C code takes the NUL that ends the text for an ordinary
  character and reads on behind it: the state "undefined". Characters are ASCII.
* **Lexemes** says what the tokens of a text are without a machine: the text is cut into
  the longest lexemes, whose shapes, values and places are described one by one.
* **Parser** is `parser/parser.c`. A parser is a record that says what it is made of,
  written with the combinators of the C file and under its names; `Parse` is what the
  combinators do with tokens, with their three ways to end (an object, NULL, and
  `p_fail`, which leaves by `longjmp`) and the tokens that NULL may leave consumed.
  Tokens are typed one at a time as long as one more can matter, from the tokens of a
  `vocabulary`, which may say how a line begins and says how long it gets. Sets and hash tables
  keep equal elements apart here.
* **Types** is the table of the types: for each type of object which methods its
  `X_methodSetup` installs, and which of its fields its methods copy, look through, mark
  and show. It is data taken from about forty C files, one record per type.
* **Objects** is what the methods do with it, over objects put together from other
  objects: a stock that grows by one object per step, of every type of an instance.
  `Copy`, `FreeVars`, `Show`, `IsEqual`, `HashCode`, `Compare` and `Match` have the names
  of the methods. What is shown goes through `Parse` again.
* **Answers** declares the NULL that means "nothing found".
* **InterpreterProofs** and **InterpreterResults**, **HeapProofs** and **GCProofs**,
  **EvaluatorProofs**, **ContainerProofs**, **ArrayProofs** and **IteratorProofs** hold the
  proofs.

`map` in `PROJECT.json` gives the lines behind every definition.

### Stray threads

Two things in the code leave a thread in the waiting queue of something it no
longer waits for: `nondet` (it enlists its evaluator with every thread it starts,
and only one of them wakes it; threads it terminates stay in the run queue and
in the queues they waited in), and a REPL that is given a new expression while
its evaluator is still blocked from the last one. From then on threads can be
woken by the wrong event, and little can be said about threads. The history
variable `stray` records that this has happened. Properties of threads
(`RunQueueIsExact`, `WaiterIsBlocked`, `CobeginTakesResults`,
`JoinReturnsAfterTermination`, `TerminationIsFinal`, `MutualExclusion`) are about
every run up to that point; that a thread blocked on a lock or message queue is in its
queue (`SleeperIsQueued`) and the properties of locks and message queues
(`FreeLockHasNoWaiters`, `LocksAreFair`, `NoMessageWithWaiter`, `MatchedInOrder`)
hold in every run, and the runs that check them contain nondet, exceptions and a REPL
that goes on with a blocked evaluator.

## 3. Runs

| Run | Instance | Question |
|---|---|---|
| tasks | 3 threads, 2 steps a slice, cobegin/async of up to 2, join, sleep | Are the queues exact, are results taken from finished tasks, does everyone go on? Checked under fairness |
| locks | 3 threads, 1 lock, nondet, uncaught exceptions | Inductive invariant, mutual exclusion, refinement of FifoLock |
| msgqs | 3 threads, 1 queue, 2 messages, nondet, exceptions caught or not | Is every message delivered once, in order? Can every blocked thread still be reached, also after threads have gone astray? |
| joiners | 3 threads | Violation: half of the threads that join a task are never woken |
| nondet | 3 threads | Violation: a thread terminated by nondet runs on |
| repl_assert | 3 threads, 1 queue | Violation: the REPL has no value to print |
| collector | 4 objects, one pointer each, 2 roots | Does the collector implement Heap, are its lists exact, is garbage collected? |
| mark_command | 3 objects, with `:gcm` | Violation: after `:gcm` a collection frees reachable objects |
| evaluator | about 9500 sessions of one to five inputs | Does the machine compute what Reference says, with balanced stacks, no frame for tail calls, and does it stop? Checked under fairness |
| try_value | lists whose last element is a try | Violation: a caught exception leaves operands behind |
| data | queues of up to 5 cells, buffers of up to 5 characters, tables of up to 5 links, arrays of up to 4 elements, iterators over up to 3 things or the numbers from -4 to 4, texts of up to 6 characters, lines of up to 8 tokens, stocks of 2 or 3 objects made from a few atoms | Do the cells, segments, buckets and arrays implement Fifo, Fifo, Dictionary and Vector? Is what is read by the count what is read by the links? Is everything visited once, in order? Is every text cut into its longest lexemes? Does the object hold everything the parser took, and does its order of alternatives lose nothing? Do the methods of a type agree: is what an object shows read as that object, is everything it shows also marked, does a copy share nothing that can change, is the order total and in step with equality and hash codes, does a match bind the free variables of a pattern and nothing else? |
| remove_one | the same tables | Violation: the removal of a key loses others |

**Bounds.** `MaxThreads`, `MaxKids`, `MaxWaiting`, `MaxDepth`, `MaxTid`, `MaxSends`,
`MaxWaits`, `MaxRefs` and `MaxRoots` bound what would otherwise grow; each is a
guard that the C code does not have. Three threads are the REPL's and two others:
enough for two to wait for the same task, lock or message, for a cobegin to have
two results to take in order, and for a loser of a nondet to be blocked elsewhere.
Two steps in a slice make slices end both by exhaustion and by blocking (one step
in `msgqs`, where the interleaving is finest). `MaxTid` limits how often an
uncaught exception gives an evaluator a new identifier; the thread with
identifier 4, which nondet never terminates, is within it. In `collector` four
objects are enough for a permanent object, a root, and a chain of two below it, or
for an object freed between two that stay.

The sessions of `evaluator` are every construct with subexpressions taken from
every construct, in both positions (those with a collection: from every other construct); every construct followed by an input that uses
what it may have bound; functions over lists that call themselves in nine different
positions, alone and through another function, on the empty, proper and improper
lists; closures that outlive what they captured; and every exception the
evaluator throws itself, caught or not, alone, inside a list and inside a do; nine
shapes of patterns against ten of objects; records of two fields with their values in any
order, given twice, missing or unknown, of a type that is defined, defined again or not;
and two subscriptions before a message that reaches none, one or both. Types are used,
and messages published, after an exception that is caught and after one that is not, and
types and subscribers added again after it: what an uncaught exception forgets and what it
keeps is told apart. Keys in brackets are
symbols and numbers (lists are not compared, see section 5), fields without a value are not
read, and the elements of a message are not looked into. Two
symbols, three identifiers and lists of up to three elements tell every two results
apart that a wrong environment, order or operand would produce. A handler that
finds operands of the failed expression (`mixed`), a letrec whose identifiers the
set lists in another order (`scrambled`) and subscribers whose results `publish` leaves on
the operand stack (`unasked` counts them) give results that differ from Reference;
the properties that compare results leave out the inputs from there on, and
`try_value` shows the first. `OperandsBalance` still counts what `publish` leaves. `EveryInputIsAnswered` holds of these programs: their
recursion is on lists that get shorter.

In `data` a behaviour uses one of eight things (`subject`): they share nothing. Segments
of two characters (128 in the code) and up to five characters put the boundary between
segments everywhere in a text, and reuse segments. The table starts with four
buckets (8 in the code): with fewer the first growth would not make room for one
more key, and the code's recursion would not end. Three keys collide in four
buckets, in part in six, and again in nine; the fourth has no hash code.
`MaxCells`, `MaxChars`, `MaxLinks`, `MaxBuckets`, `MaxItems`, `MaxThings` and `MaxNumber`
are the bounds; the contents of queues, buffers and tables and the things an iterator
goes over are symmetric. The elements of an array are not (they have ranks): four
places hold two of the same rank with one of another rank between them, and nil.
Numbers from -4 to 4, with steps of 1 to 3, make sequences that are empty, that end
at their last number and that end before it.

A text of up to four characters has one character of each kind the lexer tells apart, every
operator it treats by itself, and the newline. Longer ones (five or six characters) are
made of the characters of one kind of token each: words, numbers, strings, comments. So
there is every token and comment, complete and cut short, and the beginning of the next,
on a second line. The lines of the parser come from twenty vocabularies (`MCVocabularies`),
each with the tokens of a few constructs, some with the words a line of it begins with,
and long enough (3 to 8 tokens) that every kind of object is made; a line is no longer
typed once the parser cannot look at its end.

The stocks of `Objects` start with a few atoms and go on by two objects of the types
of one of them: every type is put together with the parts it may have, and then inside
another. That is enough for a part of a part to be forgotten, for two objects that are
equal without being the same, and for a shown operator inside a shown operator.

**Fairness.** `FairSpec` says only that the process does not stop inside
`threadManager_runAll`: the loop is ordinary C. Nothing is assumed of the user,
or of which operation a program performs; that each thread gets its turn is a
property (`EveryThreadRuns`), not an assumption. `CobeginReturns` needs two
conditions that the code does not ensure, and says so: nobody else waits for one
of the threads (else the wake-up loop may stop before the cobegin is reached),
and no uncaught exception (it drops the queue of waiting threads).

**Deadlock** is checked in every run of the interpreter, the collector and the
evaluator: the interpreter may always go on to the next expression or end. It is
not in `data` and `remove_one`: a text and a line end, and a string buffer stops where
its behaviour is undefined.

## 4. Proofs

All are for arbitrary constants. In InterpreterProofs (any number of threads, locks,
queues, messages and steps):

* `TypeCorrect`: `Spec => []TypeOK`, together with `ControlOK` (no slice outside
  `runAll`, the thread in a slice at the head of the queue, ...).
* `Inductive`: `Spec => []IInv`, where `IInv` is the conjunction of `TypeOK`,
  `ControlOK`, `ThreadsOK` and the safety invariants. They need each other: that
  the run queue is exact needs that a thread that is woken was blocked
  (`WaiterIsBlocked`); that needs that a thread leaves the waiting queue when it
  is unblocked, and that nobody but a thread that has just terminated wakes
  others (`ThreadsOK`); mutual exclusion needs that a thread with no blocking
  object is in no queue of the lock, and that a free lock has no waiting thread.
  `SleeperIsQueued` needs of the others only `TypeOK` and `ControlOK`, and holds after
  threads have gone astray as well: see below.
  TLC checks `IInv`, and `TypeOK` as its first conjunct, in the run `locks` first.
* From `IInv`: `RunQueueCorrect`, `WakeupsAreExact`, `NoLostLock`, `NoLostMessage`,
  `LocksExclude`, and the action properties `JoinIsCorrect` and
  `ThreadsStayTerminated`.

The argument has three parts: steps that leave the queues alone; steps that move
one thread from the run queue to a waiting queue, or back, or add new ones (a
lemma for each of these moves, about the queues only); and the rotation at the end
of a slice. Each action is an instance of one of them. The assumptions are the
named ones on the constants: threads, locks and queues are different things, a
slice has at least one step, the bounds are numbers.

In InterpreterResults, on top of `IInv`:

* `DeliveryIsInOrder` (`MatchedInOrder`) and `LocksServeInOrder` (`LocksAreFair`, the
  refinement of FifoLock), in every run, nondet and stray threads included. `got` is
  read as two columns: those who got something followed by those who wait are those
  who asked, and what they got followed by what is left in the queue is what was sent.
  A lock's line grows at its end (`AcquireArrives`) and loses its head
  (`ReleaseLeaves`); no other step touches it.
* `CobeginIsCorrect` (`CobeginTakesResults`). A cobegin takes the results of its threads
  one by one, the last first, and is blocked on each in turn. `CobeginInv` says, until
  threads go astray: a continuation is only on top of a stack, over the expression
  that pushed it (`StackOK`); a thread that is dormant or terminated has an empty stack;
  the threads whose results a cobegin has still to take are distinct and leave a result
  when their stack is empty (`ResultsOK`); it is blocked on the last of them, or that one
  has terminated (`AwaitsLast`); and no two cobegins take the result of the same thread
  (`Apart`). TLC checks `CobeginInv` on instances larger than those of the runs (all
  operations with three threads, cobegins with four).
* `SleepersAreReached` (`SleeperIsQueued`), in every run. Only the primitives of locks and
  message queues put a thread to sleep on one (`OthersKeepSleepers`: nondet and cobegin
  block on a thread) or change its queue (`OthersKeepWaiters`). A primitive that takes a
  thread from the queue wakes it in the same call, and whoever else is asleep there stays
  in (`PrimitiveKeepsSleepers`). That a woken thread may still be in other queues, or twice
  in this one, does no harm. Of threads blocked on a thread nothing of the kind holds (run
  `joiners`).

The collector, in HeapProofs and GCProofs, for any finite set of objects and any
bounds on pointers and roots:

* `NeverDangling`: in Heap no pointer that the code can follow leads to freed memory.
  The induction is on steps; what is needed after a step is contained in any set that
  is closed under following pointers, and the proof exhibits one for each action.
* `Reach`, the recursive function of GC that follows pointers and stops at a set, is the
  least closed set (`ReachIsLeast`; here the objects have to be finitely many). The
  members of a linked list, what the program can access, and what one call of
  `any_mark` marks are all instances of it; everything else about them follows from
  being least.
* `ListsCorrect` (`ListsAreExact`), whatever the user does. `ListInv` adds to it where the
  pointers of the loops may be: `obj` in the list that the loop goes over, `prev` its
  predecessor, so that unlinking keeps the rest.
* `CollectorInvariant`, and from it `MarkingIsComplete` (`ContentsAreMarked`) and
  `SweepTakesGarbage` (`GarbageIsCollected`). `MemInv` says for each phase what is marked:
  between two collections only permanent objects are (they are never unmarked, and what
  they hold is permanent); while marking the marked objects are closed, which is why
  marking may stop at them; the sweep has in front of it everything that can be
  accessed, marked, and behind it nothing else.
* `CollectorImplementsHeap` (`MemoryIsSafe`): each step of GC is a step of Heap or none;
  with `NeverDangling` this gives `CollectorLeavesNoDanglingPointer`.

The last four have `MarkCommand = FALSE` as hypothesis: `:gcm` marks without a sweep, and
the run `mark_command` shows that the next collection then frees what is reachable.
TLC checks both invariants on four objects with one pointer each, and on three
with two pointers each.

The evaluator, in EvaluatorProofs, for every program, every session of inputs, every order
in which a set lists identifiers and every `Match`:

* `EvaluatorInv`: `Spec => []IInv`. `IInv` says that there is a set of objects S with
  `Sound(S)`, which is three things.
  - `Stored(S)` and `Stacked(S)`: S has the parts of each of its objects, and everything in
    the environments, the tables, the inputs and on both stacks is in it, or is a frame of
    the evaluator's own made of objects of S (`IsFrame`: what each continuation holds).
    Environments are chains that go down. Every action finds what it reads for this
    reason: the branches of an `if` are expressions, the argument of a `letRec`
    continuation is a range of triples. S grows with the objects a step makes: there is a
    lemma for each way to make one (`CellJoins`, `ClosureJoins`, ...).
  - `Balanced`, which is `Fits` of the two stacks. The expressions are read from the top:
    how many operands each frame will find (`Needs`), and how many there are if nothing is
    thrown (`Counts`). No frame above a handler may pop what the handler has kept; this
    is why the kept operands are an invariant and not only the balance. Since a
    handler of the code leaves operands behind (`mixed`), needs are at most what is there,
    and exact counts hold only as long as nothing was mixed. `Served` says that a
    continuation that wants an array or a list on top will find one there, and `NoPairs`
    that no two saved environments are in a row.
  - `Phases`: the prompt, the evaluation and the end of it.

  An action pops one frame and pushes others. `FitsPop` says what is left, `FitsPush` and
  its special cases (`FitsContinued`, `FitsSuspended`, `FitsPushMany`) what may be
  pushed, `ThrowKeeps` what the search of a handler leaves. Each of the 40 actions is then one
  lemma (`KeepsEvalIf`, `KeepsDoContin`, ...).
* From `IInv`: `EvaluatorTypeOK` (`TypeOK`), `TailCallsOK` (`TailCallsPushNothing`) and
  `OperandsOK` (`OperandsBalance`).

There are two hypotheses. `SessionsArePrograms`: the inputs are objects of some set that has
their parts, as those the parser makes are. `MatchTakesParts`: what a pattern
binds are objects of any such set that has the pattern and the object. `any_match` binds
an identifier to a part of what it is given or to all of it, but its model in Matching
is recursive and cannot be proved about. TLC checks both in the run `evaluator`, as
assumptions of MCEvaluator: for all its sessions (`SessionsHavePrograms`), and for the
patterns and objects of every shape (`MatchTakesPartsOfShapes`). `IInv` speaks of a set
that TLC cannot enumerate; the run checks the three properties that follow from it.

The data structures, in ContainerProofs, ArrayProofs and IteratorProofs, of any size:

* `QueueImplementsFifo` and `QueueListsAgree` (`ListsSeeTheQueue`). `QueueInv` says that
  the cells of the queue are the last `queueCount` ones allocated, each linked to the
  next, that the tail is the last of them, and that head and tail are the empty list
  when the count is zero: it is what makes the count, the tail and the empty list at
  the end agree. `CellsInv` adds the cells that were dequeued: each still leads to the
  next one or to none, so that the walk from any cell ends.
* `BufferImplementsFifo` and `BufferSegmentsAgree` (`SegmentsAreExact`). `BufferInv`: only
  the first segment has been read from, only the last has room, and the count is the
  length of the text, which is the unread parts of the segments one behind the
  other. `readChars` finds the n-th character by a division by the size of a segment:
  `PlaceInSegment` shows that it is there.
* `HashImplementsDictionary` and `LinksCorrect` (`LinksAreExact`), over collisions, growth
  and copies. `HashInv` is that every link is in the bucket of its key, that a key with
  hash code has one, that there are no more links than the count, and that the count
  leaves room. `All` is the set of links of a table. The loops that put all links of
  one table into another (resize, copy) are folds: a fold is a sequence of tables
  (`UpdatesTrace`, `PuttingsTrace`), and after the first m links the new table finds
  what those m say. That a removal loses the newer links of the bucket is in the model
  and in Dictionary: what is proved is that it does nothing else. Needs that no value is
  the null pointer (values are objects), and at least four buckets.
* `GrowthMakesRoom`: a table of four buckets or more grows, and takes its links and one
  more before it grows again. `HashAssumption` (at least four buckets at the start) is
  why put, which calls itself after a resize, ends.

* `ArrayImplementsVector` (`ArrayIsVector`), for every set of elements, every ranking of
  them and every length. The invariant `ArraysInv` is small (the array stays within its
  bound, a primitive runs with arguments it has checked); the work is in the loops. A loop
  is `FoldLeft` over the indices, whose recursion `FoldsOverExist` and `FoldsRun` turn into
  the values the loop goes through (`Run`); `Counting` then carries the invariant of the loop
  from one to the next. The invariants are: the part of the array that has been moved
  (`DeleteIs`, `InsertIs`: up to the first dead element, and one place further) or turned
  round (`ReverseIs`); that the elements are those of the beginning in some order, which
  exchanging two keeps (`SwapOrders`, for the shuffle and the selection sort); that the
  selection sort leaves nothing larger before the places it has done (`SelectionSorts`);
  and that the insertion sort has put the first elements that are not nil in an order by
  rank and, within a rank, by place, with nil behind them (`InsertionSorts`).

* `IteratorsVisitEachOnce` (`VisitsEachOnce`), for lists, arrays and strings of any length
  and sequences of any numbers. `IteratorsInv` says that what has been visited is the
  beginning of what the object consists of, and by `StateAt` that the state of the iterator
  is right behind it: a list of what is left, whose end may be improper (`ListAt`), an
  index, or the next number, NULL behind the last. `NextIs` is the step of all of them.
  That the other ways to read an object agree is a lemma about each type (`ListReads`,
  `ArrayReads`, `StringReads`, `SequenceReads`): a range of an array is the recursive function
  of `array_getRange` (`RangeIs`), a sequence has as many numbers as steps (`StepsReach`,
  `ProgressCount`), and `string_locate` finds the least place where the token is
  (`LocateIs`). Needs that NULL is no number and no element: it is the C pointer that
  means the end.

The induction theorems of the library have an operator as parameter, which the
provers cannot instantiate. Induction over numbers is done with `LeastNumber`
instead: a set of numbers that is not empty has a least one, and the least
counterexample is none. So recursive functions and the folds over lists, cells, segments
and links are within reach; the operators declared RECURSIVE (in Matching, Reference,
Parser and Objects) are not.

Only model-checked: `LexesAsWritten`, whose proof needs an induction over the lexemes of a
text for each state of the lexer and has not been done; `ValueIsTheReference`,
`EnvIsTheReference`, `ParsedAsWritten`, `TakesTheMost`, `ShownIsRead`, `HeldIsMarked`, `CopiesStandApart`, `OrderIsTotal` and
`MatchBindsFreeVars`, which are stated with recursive operators or with modules that
have them; and the liveness properties `EveryThreadRuns`, `CobeginReturns` and
`EveryInputIsAnswered` (liveness under fairness is out of the prover's reach).

## 5. Where the code disagrees with what it says

* `evaluator_unblockWaitingThreads` wakes half of the waiting threads (run `joiners`).
* A thread terminated by nondet goes on running (run `nondet`). Besides, the test
  in `nondet.c:65` compares a thread identifier with a status.
* `repl_printValue`'s assertion fails if the REPL's evaluator is blocked (run
  `repl_assert`).
* `:gcm` breaks the next collection (run `mark_command`).
* A caught exception leaves the operands of the failed expression on the stack, and
  what encloses the try takes them for its own (run `try_value`, `exnhandler.c:60`).
* Removing a key from a hash table loses the newer keys of its bucket, and the count
  is wrong from then on (run `remove_one`, `hashtable.c:358`).

Seen while translating, with no run of their own: a parameter that a rule repeats
matches any two arguments (`identifier.c:118`), where the manual wants equal ones;
a letrec of several functions can mix up their values (`letrec.c:96` against
`letrec.c:53`), which the manual does not describe; the call that ends a `do` leaves
the frame of the `do` on the stack (`do.c:67`), where the manual (doc/UFO.html:1939)
counts it as a tail call; `publish` leaves the results of its subscribers on the operand stack, above its own value
(`event.c:49`), so that an expression around it takes them for its operands; a record with
fewer bindings than fields has no place for the last fields, and reading one of them reads
behind the array (`recordspec.c:65`, `record.c:79`); default values of fields are stored and
never used (`recorddef.c:54`); a subscriber to a pattern with a list in it is in the table
and is not found there, so that a message which matches gets a NULL queue (`event.c:43`);
an uncaught exception forgets the record types and the subscribers of the session and keeps its
bindings (`evaluator.c:71`, `73`), so that a record of a type defined before it cannot be made; a
string buffer whose only segment has been read to its end
uses a freed segment (`stringbuffer.c:115`); two equal keys without a hash code are two
entries of a table or set, against doc/UFO.html:1472 and 1483.

The lexer reads behind the end of a text that ends in a line comment without a newline
or in a backslash (`lexer.c:325`, `lexer.c:276`); the REPL removes the newline of a
line. It takes an underscore at the beginning of a word for a special character
(`lexer.c:209`), where the manual (doc/UFO.html:1526) lets identifiers begin with one;
`--;` does not end a block comment (`lexer.c:362`), where the manual
(doc/UFO.html:1921) has `-;` end it. The parser never comes to the application of an
expression in parentheses (`parser.c:702`), because `p_parenExpr` takes it first:
`TakesTheMost` leaves it out; the manual (doc/UFO.html:1521) applies a function so. A
bar before `]`, an equal sign before the `}` of a table and a `::` without a symbol
are read and forgotten (`Careless` in Parser); an operator without left operand and a
rule of a function without body give expressions with a NULL in them.

Showing an object and reading it again does not always give the object, and what
cannot be read is left out of `ShownIsRead` by name (`Careless` in Parser, `Rereadable`
in Objects): `if` shows an `end` that it does not read, a try shows its rules with `fun`, a
let separates its bindings by `. `, what is right of the `:` of a field is restricted, the
operator expression `(a) = a` is shown as a binding, and parentheses are lost around a binding on
the left of an operator, around a sequence beside another, and around a function as the
body of a function. `quote` has no `markChildren` (`quote.c:20`). `let_freeVars` never ends
for a let with bindings (`let.c:86`), those of let-in and letrec are not written
(`letin.c:89`, `letrec.c:104`), and `abstraction_freeVars` looks at the first rule only.
`list_isEqual` advances `self` and then takes the other list from what it has advanced to
(`list.c:226`): from the second element on it compares the elements of `self` with each
other, and behind the last one it is at the rest of the empty list, which is NULL
(`globals.c:51`); it is left out. So are
`hashTable_isEqual` and the `isEqual` and `match` of records, which are incomplete.
The `compare` and `hashCode` of nil, tuples and terms exist and are not
installed.

`array_insert` into an array with a dead element behind the index loses the element
behind the first dead one; a range of an array reads one element past the end
(`array.c:217`); delete and insert do not check their index (left out), no primitive
checks for a negative one. A selection sort whose first element is nil compares nil
as another type. `array:map` applies the function to element 0 of an empty array, and
`list:map` takes the end of an improper list for a list; both are left out. `list:get` with a
negative index answers the first element. Sequences that go downwards or have a step of 0
are counted wrongly. `string:locate` ignores its index argument, `string:split` writes NULs into
its argument and leaves its count. `string_show` writes a backspace as `\b`, which the
lexer reads as `b`.

The JSON parser gives `p_oneOf` its parsers as arguments (`json_parser.c:31`), where it takes
an array of them (`parser.c:313`): it reads the code of its first parser as a table, and
nothing is defined of what `json:parse` does. It is not modelled. A missing colon, an object
missing behind a comma and a missing bracket would besides jump (`parser.c:209`) into a
`parser_parse` that has returned.

An uncaught exception also forgets the threads that wait for the one that fails
(`evaluator.c:169`); `CobeginReturns` excludes it.

## 6. What is not modelled, and the plan

Abstracted for good: texts and formatting, the values of expressions where no
property is about them, allocation failure, I/O and the C library, foreign
functions, command line and colon commands other than `:gc` and `:gcm`.

Planned, in this order:

1. In Evaluator: arrays, queues and tables as objects in a store, with the reassignment of
   their elements and the literals of tables and sets (a table's literal pops as many pairs
   as the count says).
2. Interned symbols.
3. Proofs: `LexesAsWritten`.

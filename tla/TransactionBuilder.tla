------------------------- MODULE TransactionBuilder -------------------------
(***************************************************************************)
(* Building one Transaction (packages/myso/src/transactions/               *)
(* Transaction.ts).  The program adds commands, and thunks that add more   *)
(* commands to a fork of the transaction, at once or after awaiting        *)
(* something.  All of them push to one array of commands in the order they *)
(* happen to run; each fork also keeps its own section, and a build waits  *)
(* for the thunks, flattens the sections into program order, drops the     *)
(* placeholders of the thunks and renumbers the arguments.                 *)
(* A command is the number of its creation, an index of the array is a     *)
(* position counted from 1, a handle is what add() returned: a command, or *)
(* the thunk whose placeholder knows its index.                            *)
(***************************************************************************)
EXTENDS Integers, Sequences, FiniteSets, SequencesExt

CONSTANTS
    Main,         \* the transaction itself, the root of the forks
    Thunks,       \* the thunks the program may add, once each
    Builds,       \* the calls of build(), toJSON() or getDigest()
    None,         \* no thunk
    MaxCommands,  \* bound: commands added, placeholders not counted
    Overlap       \* may a build start while another one is running?

VARIABLES
    made,       \* made[c]: what was created as command c
    commands,   \* #data.commands
    section,    \* #commandSection of each fork: commands and sections of forks
    available,  \* #availableResults of each fork
    path,       \* where the program forked: a position in its text
    stack,      \* the thunks that run synchronously, the innermost last
    thunk,      \* thunk[t]: what has become of the function added as t
    result,     \* $Intent.data.result of its placeholder: a handle, or 0
    index,      \* $Intent.data.resultIndex of its placeholder
    pending,    \* #pendingPromises: of thunks, and of builds that wait
    collected,    \* collected[b]: what the promise of build b still waits for
    pc,         \* where build b is
    cut         \* the commands created before the last sort

builder == <<made, commands, section, available, path, stack, thunk, result, index,
          pending, collected, pc, cut>>

Forks == {Main} \cup Thunks

BuilderInit ==
    /\ made = <<>> /\ commands = <<>>
    /\ section = [f \in Forks |-> <<>>]
    /\ available = [f \in Forks |-> {}]
    /\ path = [f \in Forks |-> <<>>]
    /\ stack = <<>>
    /\ thunk = [t \in Thunks |-> "new"]
    /\ result = [t \in Thunks |-> 0]
    /\ index = [t \in Thunks |-> 0]
    /\ pending = {}
    /\ collected = [b \in Builds |-> {}]
    /\ pc = [b \in Builds |-> "new"]
    /\ cut = 0

\* Code of a fork runs when nothing else does: inside add(), or in its own turn.
Running(f) ==
    IF stack = <<>> THEN f \in {Main} \cup {t \in Thunks : thunk[t] = "awaiting"}
                    ELSE f = Last(stack)

\* The program leaves the transaction alone while a build sorts and resolves it,
\* and is done with it when the last build has ended.
Busy == \E b \in Builds : pc[b] \in {"sorting", "resolving"}
Open == ~ Busy /\ \E b \in Builds : pc[b] \in {"new", "waiting"}

\* What the program may pass as an argument: results it was given since the last
\* build, and those of thunks, which do not return void when they are used.
Void(t) == thunk[t] = "resolved" /\ result[t] = 0
Handles == {c \in (cut + 1) .. Len(made) : made[c].thunk = None}
           \cup {t \in Thunks : index[t] # 0 /\ ~ Void(t)}

\* Mutant: add(function) returns a result with a fixed index.
AtCreation(h) ==
    IF h \in Thunks THEN CHOOSE i \in 0 .. Len(made) : i # 0 /\ made[i].thunk = h ELSE made[h].at

\* The index a handle stands for: fixed when add() returned, or the placeholder's.
At(h) == IF h \in Thunks THEN index[h] ELSE made[h].at

-----------------------------------------------------------------------------
\* What is added to a fork is available to that fork.
Available(f, at) == [available EXCEPT ![f] = @ \cup {at}]

\* #addCommand: the command is pushed before its argument is looked at, so a
\* command that is refused stays in the transaction.
Push(f, t, h) ==
    LET at == Len(commands) + 1
    IN /\ made' = Append(made, [by |-> f, thunk |-> t, at |-> at, means |-> h,
                                arg |-> IF h = 0 THEN 0 ELSE At(h),
                                refused |-> h # 0 /\ At(h) \notin available[f]])
       /\ commands' = Append(commands, Len(made) + 1)
       /\ section' = [section EXCEPT ![f] = Append(@, Len(made) + 1)]
       /\ available' = Available(f, at)

AddCommand(f, h) ==
    /\ Running(f) /\ Open
    /\ Cardinality({c \in DOMAIN made : made[c].thunk = None}) < MaxCommands
    /\ Push(f, None, h)
    /\ UNCHANGED <<path, stack, thunk, result, index, pending, collected, pc, cut>>

\* add(function): the function runs at once on a fork.  (The thunks are alike:
\* whichever the program adds next is called the first new one.)
FirstNew(t) == t = CHOOSE u \in Thunks : thunk[u] = "new"
Fork(f, t) ==
    /\ Running(f) /\ Open
    /\ thunk[t] = "new" /\ FirstNew(t)
    /\ thunk' = [thunk EXCEPT ![t] = "sync"]
    /\ stack' = Append(stack, t)
    /\ section' = [section EXCEPT ![f] = Append(@, t)]
    /\ available' = [available EXCEPT ![t] = available[f]]
    /\ path' = [path EXCEPT ![t] = Append(path[f], Len(made) + 1)]
    /\ UNCHANGED <<made, commands, result, index, pending, collected, pc, cut>>

Parent(t) == CHOOSE f \in Forks : t \in ToSet(section[f])

\* The function returned without a promise.
Return(t) ==
    /\ Running(t) /\ thunk[t] = "sync"
    /\ thunk' = [thunk EXCEPT ![t] = "returned"]
    /\ stack' = Front(stack)
    /\ available' = [available EXCEPT ![Parent(t)] = available[t]]
    /\ UNCHANGED <<made, commands, section, path, result, index, pending, collected, pc, cut>>

\* It returned a promise: a placeholder stands for its result in its parent.
Await(t) ==
    /\ Running(t) /\ thunk[t] = "sync"
    /\ thunk' = [thunk EXCEPT ![t] = "awaiting"]
    /\ stack' = Front(stack)
    /\ index' = [index EXCEPT ![t] = Len(commands) + 1]
    /\ pending' = pending \cup {t}
    /\ Push(Parent(t), t, 0)
    /\ UNCHANGED <<path, result, collected, pc, cut>>

\* The promise is fulfilled, with nothing or with a result the thunk may use.
Resolve(t, h) ==
    /\ Running(t) /\ thunk[t] = "awaiting"
    /\ IF h = 0 THEN \A c \in DOMAIN made : made[c].means # t
                     /\ \A u \in Thunks : result[u] # t
                ELSE At(h) \in available[t]
    /\ thunk' = [thunk EXCEPT ![t] = "resolved"]
    /\ result' = [result EXCEPT ![t] = h]
    /\ UNCHANGED <<made, commands, section, available, path, stack, index, pending,
                   collected, pc, cut>>

\* The function throws, in the turn of its parent or in its own.
Throw(t) ==
    /\ Running(t)
    /\ stack' = IF stack = <<>> THEN stack ELSE Front(stack)
    /\ thunk' = [thunk EXCEPT ![t] = IF @ = "sync" THEN "returned" ELSE "failed"]
    /\ UNCHANGED <<made, commands, section, available, path, result, index, pending,
                   collected, pc, cut>>

-----------------------------------------------------------------------------
\* Mutant: the set of promises is not cleared.
CollectAgain(b, tasks) ==
    /\ pc' = [pc EXCEPT ![b] = IF tasks = {} THEN "sorting" ELSE "waiting"]
    /\ pending' = IF tasks = {} THEN {} ELSE tasks \cup {b}
    /\ collected' = [a \in Builds |-> IF a = b THEN tasks ELSE collected[a] \ {b}]

\* #waitForPendingTasks: one turn of its loop.  The promise of all that is pending
\* takes the place of what is pending.
Collect(b, tasks) ==
    /\ pc' = [pc EXCEPT ![b] = IF tasks = {} THEN "sorting" ELSE "waiting"]
    /\ pending' = IF tasks = {} THEN {} ELSE {b}
    /\ collected' = [a \in Builds |-> IF a = b THEN tasks ELSE collected[a] \ {b}]

Build(b) ==
    /\ stack = <<>> /\ ~ Busy
    /\ pc[b] = "new" /\ b = CHOOSE a \in Builds : pc[a] = "new"
    /\ Overlap \/ \A a \in Builds : pc[a] # "waiting"
    /\ Collect(b, pending)
    /\ UNCHANGED <<made, commands, section, available, path, stack, thunk, result, index, cut>>

\* What build b waits for is fulfilled, and so is its promise.
WakeBuild(b) ==
    /\ stack = <<>> /\ pc[b] = "waiting"
    /\ \A x \in collected[b] : x \in Thunks /\ thunk[x] = "resolved"
    /\ Collect(b, pending \ {b})
    /\ UNCHANGED <<made, commands, section, available, path, stack, thunk, result, index, cut>>

\* One of them is rejected: the rejected promise stays where it is.
Rejected(x) == IF x \in Thunks THEN thunk[x] = "failed" ELSE pc[x] = "rejected"
Reject(b) ==
    /\ stack = <<>> /\ pc[b] = "waiting"
    /\ \E x \in collected[b] : Rejected(x)
    /\ pc' = [pc EXCEPT ![b] = "rejected"]
    /\ UNCHANGED <<made, commands, section, available, path, stack, thunk, result, index,
                   pending, collected, cut>>

\* Mutant: the sections are not looked at.
OrderedAsPushed == commands

\* #commandSection.flat(Infinity)
Ordered ==
    LET flat[f \in Forks] ==
          FlattenSeq([i \in DOMAIN section[f] |->
                        IF section[f][i] \in Thunks THEN flat[section[f][i]]
                                                    ELSE <<section[f][i]>>])
    IN flat[Main]

Filtered == SelectSeq(Ordered, LAMBDA c : made[c].thunk = None)

\* getOriginalIndex: the place of a command among the filtered ones, and of a
\* placeholder the place of what its thunk returned.
Updated(c) == CHOOSE i \in DOMAIN Filtered : Filtered[i] = c
OriginalIndex(i) ==
    LET original[j \in DOMAIN commands] ==
          LET c == commands[j]
          IN IF made[c].thunk = None THEN Updated(c) ELSE original[At(result[made[c].thunk])]
    IN original[i]

\* #sortCommandsAndInputs
Sort(b) ==
    /\ stack = <<>> /\ pc[b] = "sorting"
    /\ pc' = [pc EXCEPT ![b] = "resolving"]
    /\ commands' = Filtered
    /\ section' = [section EXCEPT ![Main] = Filtered]
    /\ available' = [available EXCEPT ![Main] = DOMAIN Filtered]
    /\ made' = [c \in DOMAIN made |->
                  IF c \in ToSet(Filtered) /\ made[c].arg # 0
                  THEN [made[c] EXCEPT !.arg = OriginalIndex(@)] ELSE made[c]]
    /\ index' = [t \in Thunks |->
                   IF result[t] # 0 /\ \E c \in ToSet(commands) : made[c].thunk = t
                   THEN OriginalIndex(index[t]) ELSE index[t]]
    /\ cut' = Len(made)
    /\ UNCHANGED <<path, stack, thunk, result, pending, collected>>

\* #runPlugins, whether the plugins succeed or throw
Finish(b) ==
    /\ stack = <<>> /\ pc[b] = "resolving"
    /\ \E end \in {"done", "failed"} : pc' = [pc EXCEPT ![b] = end]
    /\ section' = [section EXCEPT ![Main] = commands]
    /\ available' = [available EXCEPT ![Main] = DOMAIN commands]
    /\ UNCHANGED <<made, commands, path, stack, thunk, result, index, pending, collected, cut>>

-----------------------------------------------------------------------------
EndThunk(t) == Return(t) \/ Await(t) \/ Throw(t) \/ \E h \in Handles \cup {0} : Resolve(t, h)
Progress(b) == WakeBuild(b) \/ Reject(b) \/ Sort(b) \/ Finish(b)

BuilderNext ==
    \/ \E f \in Forks : \/ \E h \in Handles \cup {0} : AddCommand(f, h)
                        \/ \E t \in Thunks : Fork(f, t)
    \/ \E t \in Thunks : EndThunk(t)
    \/ \E b \in Builds : Build(b) \/ Progress(b)

\* Thunks end, promises wake those that wait for them, plugins settle.
BuilderFairness == /\ \A t \in Thunks : WF_builder(EndThunk(t))
                   /\ \A b \in Builds : WF_builder(Progress(b))

BuilderSpec == BuilderInit /\ [][BuilderNext]_builder /\ BuilderFairness

-----------------------------------------------------------------------------
\* The order of the program's text: a thunk's commands stand where it was added.
Place(c) == Append(path[made[c].by], c)
Before(p, q) ==
    \E i \in DOMAIN p \cap DOMAIN q : p[i] < q[i] /\ \A j \in 1 .. (i - 1) : p[j] = q[j]

\* The check of #availableResults suffices: in the order of the sections a command
\* that was accepted uses the result of an earlier one.
UsesEarlierResults ==
    \A c \in ToSet(commands) : made[c].arg # 0 /\ ~ made[c].refused =>
        LET target == commands[made[c].arg]
        IN \E i, j \in DOMAIN Ordered : i < j /\ Ordered[i] = target /\ Ordered[j] = c

\* Whatever ran when: the sections hold each command once, in the order in which
\* the program wrote them, so the sort neither loses nor reorders (the assertion
\* 'Unexpected number of commands found' never fails), and a command that uses a
\* result comes after the one that has it.
InProgramOrder ==
    LET order == SelectSeq(Ordered, LAMBDA c : made[c].thunk = None)
    IN /\ Len(Ordered) = Len(commands) /\ ToSet(Ordered) = ToSet(commands)
       /\ \A i, j \in DOMAIN order : i < j => Before(Place(order[i]), Place(order[j]))
       /\ UsesEarlierResults

\* What a handle stands for in the end: a thunk stands for what it returned.
Meant(h) ==
    LET meant[x \in Thunks] ==
          IF result[x] = 0 THEN x ELSE IF result[x] \in Thunks THEN meant[result[x]] ELSE result[x]
    IN IF h \in Thunks THEN meant[h] ELSE h

\* Through sorts, removed placeholders and later edits, the index in an argument is
\* that of the command, or of the placeholder of the thunk, the program passed.
ArgumentsKeepTheirMeaning ==
    \A c \in ToSet(commands) : made[c].arg # 0 =>
        LET target == commands[made[c].arg]
        IN IF made[target].thunk = None THEN target = Meant(made[c].means)
                                        ELSE made[target].thunk = made[c].means

\* Calls of build() return bytes or throw: in the end none is under way.
EveryBuildEnds == <>[](\A b \in Builds : pc[b] \in {"new", "rejected", "done", "failed"})
=============================================================================

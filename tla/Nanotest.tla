------------------------------ MODULE Nanotest ------------------------------
(***************************************************************************)
(* nanotest, app/prefetch/coro_bin_search: many binary searches over one   *)
(* sorted vector, done one after the other (naive), interleaved by a       *)
(* hand-made state machine (sm) or by coroutines (coro), which suspend     *)
(* where they would wait for a cache line.  main repeats the chosen test   *)
(* and adds up how many lookups were found.                                *)
(*                                                                         *)
(* The coroutines' scheduler is a ring of N handles without a test for a   *)
(* full ring; it and the frame allocator are globals that live on from one *)
(* repetition to the next.  A coroutine is known by the lookup it does.    *)
(***************************************************************************)
EXTENDS Integers, Sequences, FiniteSets

CONSTANTS
  Size,          \* the elements of v
  Lookups,       \* the number of lookups
  Keys,          \* the keys that rng draws from
  Repeat,        \* State::repeat
  MaxStreams,    \* the largest <streams> argument
  N              \* scheduler_queue::N

ASSUME NanotestAssumption ==
  /\ Size \in Nat \ {0} /\ Lookups \in Nat /\ Repeat \in Nat
  /\ MaxStreams \in Nat \ {0} /\ N \in Nat \ {0}
  /\ Keys \subseteq 0..(2 * Size)

VARIABLES
  algo, streams, lookups,    \* the arguments and the lookups drawn
  nt_pc,        \* where main, the test or the throttler is
  repeat,       \* repetitions to go
  total,        \* main's sum
  next,         \* the lookup that the test's loop is at
  limit,        \* throttler::limit
  arr, head, tail,           \* scheduler_queue
  cur,          \* the coroutine that runs; 0: the test does
  frame,        \* per coroutine, its frame; NoFrame when it has none
  found_count, not_found_count,
  free_frames,  \* the length of tcalloc's list
  alloc_count,  \* tcalloc::alloc_count
  f, i, result  \* SmMultiLookup's frames, index and result

coroVars == <<limit, arr, head, tail, cur, frame, found_count, not_found_count,
              free_frames, alloc_count>>
smVars == <<f, i, result>>
ntVars == <<algo, streams, lookups, nt_pc, repeat, total, next, coroVars, smVars>>

-----------------------------------------------------------------------------
(* The searches.  State's constructor fills v with 0, 2, 4, ...            *)
V(n) == 2 * n

NoFrame == [first |-> 0, len |-> 0, val |-> 0, state |-> "empty"]
Frame(key, state) == [first |-> 0, len |-> Size, val |-> key, state |-> state]

(* Mutant: the upper half keeps its middle. *)
StepKeepsMiddle(fr) ==
  LET half == fr.len \div 2
      x == V(fr.first + half)
      narrowed == IF x < fr.val
                  THEN [fr EXCEPT !.first = @ + half, !.len = @ - half]
                  ELSE [fr EXCEPT !.len = half]
  IN  [narrowed EXCEPT !.state = IF x = fr.val THEN "found"
                                 ELSE IF narrowed.len > 0 THEN "keep_going"
                                 ELSE "not_found"]

(* One round of the loop, which all three have: compare with the middle,   *)
(* keep one half, stop when it is equal or nothing is left.                *)
Step(fr) ==
  LET half == fr.len \div 2
      x == V(fr.first + half)
      narrowed == IF x < fr.val
                  THEN [fr EXCEPT !.first = @ + half + 1, !.len = @ - half - 1]
                  ELSE [fr EXCEPT !.len = half]
  IN  [narrowed EXCEPT !.state = IF x = fr.val THEN "found"
                                 ELSE IF narrowed.len > 0 THEN "keep_going"
                                 ELSE "not_found"]

(* naive_binary_search: the loop to its end. *)
NaiveBinarySearch(key) ==
  LET after[n \in 0..Size] ==
        IF n = 0 THEN Frame(key, "keep_going")
        ELSE IF after[n - 1].state = "keep_going" THEN Step(after[n - 1])
        ELSE after[n - 1]
  IN  after[Size].state = "found"

(* Mutant: the loop stops before it looks at the last element left. *)
BinarySearchStopsAtOne(array, key) ==
  LET size == Len(array)
      Mid(s) == (s.low + s.high) \div 2
      at[n \in 0..size] ==
        IF n = 0 THEN [low |-> 0, high |-> size - 1]
        ELSE LET s == at[n - 1] IN
             IF s.low >= s.high \/ array[Mid(s) + 1] = key THEN s
             ELSE IF array[Mid(s) + 1] < key THEN [s EXCEPT !.low = Mid(s) + 1]
             ELSE [s EXCEPT !.high = Mid(s) - 1]
  IN  IF at[size].low < at[size].high THEN Mid(at[size]) ELSE -1

(* bin_search.cpp's binarySearch over an array: the index of key, or -1.   *)
BinarySearch(array, key) ==
  LET size == Len(array)
      Mid(s) == (s.low + s.high) \div 2
      at[n \in 0..size] ==
        IF n = 0 THEN [low |-> 0, high |-> size - 1]
        ELSE LET s == at[n - 1] IN
             IF s.low > s.high \/ array[Mid(s) + 1] = key THEN s
             ELSE IF array[Mid(s) + 1] < key THEN [s EXCEPT !.low = Mid(s) + 1]
             ELSE [s EXCEPT !.high = Mid(s) - 1]
  IN  IF at[size].low <= at[size].high THEN Mid(at[size]) ELSE -1

Found(keys, Search(_)) == Cardinality({k \in 1..Lookups : Search(keys[k])})

-----------------------------------------------------------------------------
NtInit ==
  /\ algo \in {"naive", "sm", "coro"} /\ streams \in 1..MaxStreams
  /\ lookups \in [1..Lookups -> Keys]
  /\ nt_pc = "main" /\ repeat = Repeat /\ total = 0 /\ next = 1
  /\ limit = 0 /\ arr = [s \in 0..(N - 1) |-> 0] /\ head = 0 /\ tail = 0
  /\ cur = 0 /\ frame = [k \in 1..Lookups |-> NoFrame]
  /\ found_count = 0 /\ not_found_count = 0
  /\ free_frames = 0 /\ alloc_count = 0
  /\ f = [s \in 0..(streams - 1) |-> NoFrame] /\ i = 0 /\ result = 0

TestNaive ==
  /\ nt_pc = "main" /\ repeat > 0 /\ algo = "naive"
  /\ total' = total + Found(lookups, NaiveBinarySearch)
  /\ repeat' = repeat - 1
  /\ UNCHANGED <<algo, streams, lookups, nt_pc, next, coroVars, smVars>>

-----------------------------------------------------------------------------
(* SmMultiLookup. *)

TestSm ==
  /\ nt_pc = "main" /\ repeat > 0 /\ algo = "sm"
  /\ f' = [s \in 0..(streams - 1) |-> NoFrame]
  /\ i' = streams - 1 /\ result' = 0
  /\ next' = 1 /\ nt_pc' = "sm_lookup"
  /\ UNCHANGED <<algo, streams, lookups, repeat, total, coroVars>>

Previous(n) == IF n = 0 THEN streams - 1 ELSE n - 1

(* Mutant: a lookup found while the next one waits is not counted. *)
SmLookupUncounted ==
  LET ran == IF f[i].state = "keep_going" THEN Step(f[i]) ELSE f[i]
  IN  /\ nt_pc = "sm_lookup" /\ next <= Lookups
      /\ \/ /\ ran.state = "keep_going"
            /\ f' = [f EXCEPT ![i] = ran]
            /\ UNCHANGED <<next, result>>
         \/ /\ ran.state # "keep_going"
            /\ f' = [f EXCEPT ![i] = Frame(lookups[next], "keep_going")]
            /\ next' = next + 1
            /\ result' = result
      /\ i' = Previous(i)
      /\ UNCHANGED <<algo, streams, lookups, nt_pc, repeat, total, coroVars>>

(* The next lookup goes into the frame at i if that is free or runs to its *)
(* end now; otherwise the frame before it is tried.                        *)
SmLookup ==
  LET ran == IF f[i].state = "keep_going" THEN Step(f[i]) ELSE f[i]
  IN  /\ nt_pc = "sm_lookup" /\ next <= Lookups
      /\ \/ /\ ran.state = "keep_going"
            /\ f' = [f EXCEPT ![i] = ran]
            /\ UNCHANGED <<next, result>>
         \/ /\ ran.state # "keep_going"
            /\ f' = [f EXCEPT ![i] = Frame(lookups[next], "keep_going")]
            /\ next' = next + 1
            /\ result' = IF f[i].state = "keep_going" /\ ran.state = "found"
                         THEN result + 1 ELSE result
      /\ i' = Previous(i)
      /\ UNCHANGED <<algo, streams, lookups, nt_pc, repeat, total, coroVars>>

(* One pass over all frames after the last lookup; the result is returned  *)
(* when no frame had work left.                                            *)
SmDrain ==
  LET going == {s \in DOMAIN f : f[s].state = "keep_going"}
      hits == {s \in going : Step(f[s]).state = "found"}
  IN  /\ nt_pc = "sm_lookup" /\ next > Lookups
      /\ \/ /\ going # {}
            /\ f' = [s \in DOMAIN f |-> IF s \in going THEN Step(f[s]) ELSE f[s]]
            /\ result' = result + Cardinality(hits)
            /\ UNCHANGED <<nt_pc, repeat, total>>
         \/ /\ going = {}
            /\ total' = total + result /\ repeat' = repeat - 1
            /\ nt_pc' = "main"
            /\ UNCHANGED <<f, result>>
      /\ UNCHANGED <<algo, streams, lookups, next, i, coroVars>>

-----------------------------------------------------------------------------
(* CoroMultiLookup. *)

(* A throttler of `streams` is made; the ring and the allocator are global. *)
TestCoro ==
  /\ nt_pc = "main" /\ repeat > 0 /\ algo = "coro"
  /\ limit' = streams /\ found_count' = 0 /\ not_found_count' = 0
  /\ next' = 1 /\ nt_pc' = "call"
  /\ UNCHANGED <<algo, streams, lookups, repeat, total, smVars,
                 arr, head, tail, cur, frame, free_frames, alloc_count>>

(* Mutant: the list is only looked at for smaller frames. *)
AllocNeverReuses ==
  /\ free_frames' = free_frames
  /\ alloc_count' = alloc_count + 1

(* tcalloc::alloc: all frames have one size. *)
Alloc ==
  /\ free_frames' = IF free_frames > 0 THEN free_frames - 1 ELSE 0
  /\ alloc_count' = IF free_frames > 0 THEN alloc_count ELSE alloc_count + 1

(* The call of the coroutine makes its frame, and suspends it at once. *)
CallCoroutine ==
  /\ nt_pc = "call" /\ next <= Lookups
  /\ Alloc
  /\ frame' = [frame EXCEPT ![next] = Frame(lookups[next], "initial")]
  /\ nt_pc' = "spawn"
  /\ UNCHANGED <<algo, streams, lookups, repeat, total, next, smVars,
                 limit, arr, head, tail, cur, found_count, not_found_count>>

(* throttler::spawn: at the limit it first resumes the front of the ring,  *)
(* and is back when some coroutine has ended.                              *)
Spawn ==
  /\ nt_pc = "spawn"
  /\ \/ /\ limit = 0
        /\ cur' = arr[tail] /\ tail' = (tail + 1) % N
     \/ limit > 0 /\ UNCHANGED <<cur, tail>>
  /\ nt_pc' = "push"
  /\ UNCHANGED <<algo, streams, lookups, repeat, total, next, smVars, limit, arr,
                 head, frame, found_count, not_found_count, free_frames, alloc_count>>

SpawnPush ==
  /\ nt_pc = "push" /\ cur = 0
  /\ arr' = [arr EXCEPT ![head] = next] /\ head' = (head + 1) % N
  /\ limit' = limit - 1
  /\ next' = next + 1 /\ nt_pc' = "call"
  /\ UNCHANGED <<algo, streams, lookups, repeat, total, smVars, tail, cur, frame,
                 found_count, not_found_count, free_frames, alloc_count>>

(* Mutant: the front is taken before the coroutine is put at the back. *)
AwaitPopsFirst ==
  /\ cur' = arr[tail] /\ tail' = (tail + 1) % N
  /\ arr' = [arr EXCEPT ![head] = cur] /\ head' = (head + 1) % N

(* await_suspend: to the back of the ring, and on with the front of it. *)
AwaitSuspend ==
  /\ arr' = [arr EXCEPT ![head] = cur] /\ head' = (head + 1) % N
  /\ cur' = arr'[tail] /\ tail' = (tail + 1) % N

(* The coroutine that runs goes on to its next co_await. *)
ResumeToAwait ==
  LET ran == IF frame[cur].state = "initial" THEN Frame(frame[cur].val, "keep_going")
             ELSE Step(frame[cur])
  IN  /\ cur # 0 /\ ran.state = "keep_going"
      /\ frame' = [frame EXCEPT ![cur] = ran]
      /\ AwaitSuspend
      /\ UNCHANGED <<algo, streams, lookups, nt_pc, repeat, total, next, smVars, limit,
                     found_count, not_found_count, free_frames, alloc_count>>

(* It ends: on_found or on_not_found, on_task_done, and its frame goes to  *)
(* the allocator's list.  Control is back at the resume() of the test.     *)
ResumeToEnd ==
  LET ran == Step(frame[cur])
  IN  /\ cur # 0 /\ frame[cur].state = "keep_going" /\ ran.state # "keep_going"
      /\ found_count' = IF ran.state = "found" THEN found_count + 1 ELSE found_count
      /\ not_found_count' = IF ran.state = "found" THEN not_found_count
                            ELSE not_found_count + 1
      /\ limit' = limit + 1
      /\ frame' = [frame EXCEPT ![cur] = NoFrame]
      /\ free_frames' = free_frames + 1
      /\ cur' = 0
      /\ UNCHANGED <<algo, streams, lookups, nt_pc, repeat, total, next, smVars,
                     arr, head, tail, alloc_count>>

(* scheduler_queue::run, when all lookups are spawned: resume the front    *)
(* until the ring is empty; then the test returns found_count.             *)
SchedulerRun ==
  /\ nt_pc = "call" /\ next > Lookups /\ cur = 0
  /\ \/ /\ head # tail
        /\ cur' = arr[tail] /\ tail' = (tail + 1) % N
        /\ UNCHANGED <<nt_pc, repeat, total>>
     \/ /\ head = tail
        /\ total' = total + found_count /\ repeat' = repeat - 1
        /\ nt_pc' = "main"
        /\ UNCHANGED <<cur, tail>>
  /\ UNCHANGED <<algo, streams, lookups, next, smVars, limit, arr, head, frame,
                 found_count, not_found_count, free_frames, alloc_count>>

NtExited == nt_pc = "main" /\ repeat = 0
NtExit == NtExited /\ UNCHANGED ntVars

Sm == TestSm \/ SmLookup \/ SmDrain
Coro ==
  \/ TestCoro \/ CallCoroutine \/ Spawn \/ SpawnPush \/ SchedulerRun
  \/ ResumeToAwait \/ ResumeToEnd

NtNext == TestNaive \/ Sm \/ Coro \/ NtExit

NtSpec == NtInit /\ [][NtNext]_ntVars

-----------------------------------------------------------------------------
Present(key) == \E n \in 0..(Size - 1) : V(n) = key

(* Full and empty look alike to the ring: N coroutines are too many. *)
RingFits == algo = "coro" => streams < N

(* What main prints, and compares with ExpectedResult: after every         *)
(* repetition the sum is the number of keys that are in v, the same for    *)
(* the three algorithms, for any number of streams of the first two and    *)
(* fewer than N coroutines.  CoroMultiLookup's own test, which prints      *)
(* "BUG", never fails then: each lookup has ended once.                    *)
SumIsRight ==
  RingFits /\ nt_pc = "main" =>
    /\ total = (Repeat - repeat) * Found(lookups, Present)
    /\ algo = "coro" /\ repeat < Repeat => found_count + not_found_count = Lookups

(* The usage text, nanotest.cpp: "<streams>: 1 - whatever".  main prints   *)
(* "!!!! BUG" for no number of streams.                                    *)
SumForAnyStreams == nt_pc = "main" => total = (Repeat - repeat) * Found(lookups, Present)

(* The ring, which cannot tell full from empty, holds every coroutine that *)
(* is suspended, each of them once; the one that runs is not in it, and it *)
(* has a frame.                                                            *)
RingIsFaithful ==
  RingFits =>
    LET queued == (head - tail) % N
        held == {arr[(tail + d) % N] : d \in 0..(queued - 1)}
        live == {k \in 1..Lookups : frame[k] # NoFrame}
        called == IF nt_pc \in {"spawn", "push"} THEN {next} ELSE {}
    IN  /\ held = live \ (called \cup {cur})
        /\ Cardinality(held) = queued
        /\ cur # 0 => cur \in live \ called

(* The throttler and the allocator keep memory bounded: no more frames are *)
(* ever allocated than streams, and one that is called while all of them   *)
(* are taken, over all repetitions.                                        *)
FramesBounded == RingFits => alloc_count <= streams + 1

(* binarySearch, in arrays of every length up to twice Size, finds every   *)
(* element at its place, and no key that is not in the array.              *)
BinarySearchIsRight ==
  \A len \in 0..(2 * Size), k \in 1..Lookups :
    LET array == [n \in 1..len |-> V(n - 1)]
        at == BinarySearch(array, lookups[k])
    IN  IF \E n \in 1..len : array[n] = lookups[k]
        THEN at \in 0..(len - 1) /\ array[at + 1] = lookups[k]
        ELSE at = -1

=============================================================================

----------------------------- MODULE PipeProofs -----------------------------
(***************************************************************************)
(* Proofs about the pipe, for any buffer size, any number of tasks, any    *)
(* sizes of reads and writes, and any kills.                               *)
(***************************************************************************)
EXTENDS Pipe, SchedProofs

\* Positions in the ring, modulo its size.
LEMMA ModFacts ==
    ASSUME NEW n \in Nat \ {0}, NEW a \in 0 .. (n - 1), NEW d \in 0 .. n
    PROVE  ((a + d) % n) = IF a + d < n THEN a + d ELSE a + d - n
OBVIOUS

LEMMA ModAdd ==
    ASSUME NEW n \in Nat \ {0}, NEW a \in 0 .. (n - 1),
           NEW m \in 0 .. n, NEW i \in 0 .. n, m + i <= n
    PROVE  /\ ((a + m) % n) \in 0 .. (n - 1)
           /\ ((((a + m) % n) + i) % n) = ((a + (m + i)) % n)
<1> DEFINE b == (a + m) % n
<1>1. b = IF a + m < n THEN a + m ELSE a + m - n
  BY ModFacts
<1>2. b \in 0 .. (n - 1)
  BY <1>1
<1>3. ((a + (m + i)) % n) = IF a + (m + i) < n THEN a + (m + i) ELSE a + (m + i) - n
  <2>1. m + i \in 0 .. n
    OBVIOUS
  <2> QED BY <2>1, ModFacts
<1> HIDE DEF b
<1>4. ((b + i) % n) = IF b + i < n THEN b + i ELSE b + i - n
  BY <1>2, ModFacts
<1>5. ((b + i) % n) = ((a + (m + i)) % n)
  BY <1>1, <1>2, <1>3, <1>4
<1> QED BY <1>2, <1>5 DEF b

-----------------------------------------------------------------------------
\* The ring: its types, and write_pos is count places behind read_pos.
RingInv ==
    /\ buf \in [0 .. (N - 1) -> Bytes]
    /\ read_pos \in 0 .. (N - 1) /\ count \in 0 .. N
    /\ write_pos = (read_pos + count) % N
    /\ todo \in [Tasks -> Seq(Bytes)]

LEMMA ContentFacts ==
    ASSUME RingInv
    PROVE  /\ Content \in Seq(Bytes) /\ Len(Content) = count
           /\ \A i \in 1 .. count : /\ (read_pos + i - 1) % N \in 0 .. (N - 1)
                                    /\ Content[i] = buf[(read_pos + i - 1) % N]
<1>1. N \in Nat \ {0} /\ count \in Nat
  BY PipeAssumption DEF RingInv
<1>2. \A i \in 1 .. count : (read_pos + i - 1) % N \in 0 .. (N - 1)
  BY <1>1 DEF RingInv
<1>3. Content \in [1 .. count -> Bytes]
  BY <1>2 DEF Content, RingInv
<1>4. Content \in Seq(Bytes) /\ Len(Content) = count
  BY <1>1, <1>3, SeqDef, LenProperties
<1> QED BY <1>2, <1>4 DEF Content

\* Putting a byte at write_pos appends it.
LEMMA PutAppends ==
    ASSUME RingInv, count < N, NEW b \in Bytes,
           buf' = [buf EXCEPT ![write_pos] = b],
           write_pos' = (write_pos + 1) % N, count' = count + 1,
           read_pos' = read_pos
    PROVE  /\ Content' = Append(Content, b)
           /\ buf' \in [0 .. (N - 1) -> Bytes] /\ count' \in 0 .. N
           /\ write_pos' = (read_pos' + count') % N
<1>1. N \in Nat \ {0} /\ count \in Nat /\ count \in 0 .. N /\ read_pos \in 0 .. (N - 1)
  BY PipeAssumption DEF RingInv
<1>2. write_pos = ((read_pos + count) % N) /\ write_pos \in 0 .. (N - 1)
  BY <1>1 DEF RingInv
<1>3. buf' \in [0 .. (N - 1) -> Bytes] /\ count' \in 0 .. N
  BY <1>1, <1>2 DEF RingInv
<1>4. write_pos' = ((read_pos' + count') % N)
  <2>1. ((((read_pos + count) % N) + 1) % N) = ((read_pos + (count + 1)) % N)
    BY <1>1, ModAdd
  <2> QED BY <1>2, <2>1
<1>5. Content' = [i \in 1 .. (count + 1) |-> buf'[(read_pos + i - 1) % N]]
  BY DEF Content
<1>6. Content \in Seq(Bytes) /\ Len(Content) = count
      /\ \A i \in 1 .. count : Content[i] = buf[(read_pos + i - 1) % N]
  BY ContentFacts
<1>7. ASSUME NEW i \in 1 .. (count + 1)
      PROVE  buf'[(read_pos + i - 1) % N] = Append(Content, b)[i]
  <2> DEFINE j == (read_pos + i - 1) % N
  <2>1. i - 1 \in 0 .. N /\ read_pos + i - 1 = read_pos + (i - 1)
    BY <1>1
  <2>2. j = IF read_pos + (i - 1) < N THEN read_pos + (i - 1) ELSE read_pos + (i - 1) - N
    BY <1>1, <2>1, ModFacts
  <2>3. write_pos = IF read_pos + count < N THEN read_pos + count ELSE read_pos + count - N
    BY <1>1, <1>2, ModFacts
  <2> HIDE DEF j
  <2>4. CASE i = count + 1
    <3>1. j = write_pos
      BY <1>1, <2>2, <2>3, <2>4
    <3>2. buf'[j] = b
      BY <1>2, <3>1 DEF RingInv
    <3>3. Append(Content, b)[i] = b
      BY <1>6, <2>4
    <3> QED BY <3>2, <3>3 DEF j
  <2>5. CASE i \in 1 .. count
    <3>1. j # write_pos /\ j \in 0 .. (N - 1)
      BY <1>1, <2>2, <2>3, <2>5
    <3>2. buf'[j] = buf[j]
      BY <1>2, <3>1 DEF RingInv
    <3>3. Append(Content, b)[i] = Content[i]
      BY <1>6, <2>5
    <3>4. Content[i] = buf[j]
      BY <1>6, <2>5 DEF j
    <3> QED BY <3>2, <3>3, <3>4 DEF j
  <2>6. i = count + 1 \/ i \in 1 .. count
    BY <1>1
  <2> QED BY <2>4, <2>5, <2>6
<1>8. Append(Content, b) \in Seq(Bytes) /\ Len(Append(Content, b)) = count + 1
  BY <1>6
<1>9. Append(Content, b) = [i \in 1 .. (count + 1) |-> Append(Content, b)[i]]
  <2>1. Append(Content, b) \in [1 .. Len(Append(Content, b)) -> Bytes]
    BY <1>8, LenProperties
  <2> QED BY <1>8, <2>1
<1>10. Content' = Append(Content, b)
  BY <1>5, <1>7, <1>9
<1> QED BY <1>3, <1>4, <1>10

\* Taking m bytes at read_pos removes the first m.
LEMMA GetTakes ==
    ASSUME RingInv, NEW m \in 1 .. count,
           read_pos' = (read_pos + m) % N, count' = count - m,
           buf' = buf, write_pos' = write_pos
    PROVE  /\ Content' = SubSeq(Content, m + 1, Len(Content))
           /\ read_pos' \in 0 .. (N - 1) /\ count' \in 0 .. N
           /\ write_pos' = (read_pos' + count') % N
<1>1. N \in Nat \ {0} /\ count \in Nat /\ count \in 0 .. N /\ read_pos \in 0 .. (N - 1)
      /\ m \in 0 .. N /\ count - m \in 0 .. N
  BY PipeAssumption DEF RingInv
<1>2. read_pos' \in 0 .. (N - 1)
  BY <1>1, ModAdd
<1>3. write_pos' = ((read_pos' + count') % N)
  <2>1. ((((read_pos + m) % N) + (count - m)) % N) = ((read_pos + (m + (count - m))) % N)
    BY <1>1, ModAdd
  <2>2. m + (count - m) = count
    BY <1>1
  <2> QED BY <2>1, <2>2 DEF RingInv
<1>4. Content \in Seq(Bytes) /\ Len(Content) = count
      /\ \A i \in 1 .. count : Content[i] = buf[(read_pos + i - 1) % N]
  BY ContentFacts
<1> DEFINE rest == SubSeq(Content, m + 1, Len(Content))
<1>5. /\ rest \in Seq(Bytes) /\ Len(rest) = count - m
      /\ \A i \in 1 .. (count - m) : rest[i] = Content[m + i]
  BY <1>1, <1>4
<1>6. Content' = [i \in 1 .. (count - m) |-> buf[(read_pos' + i - 1) % N]]
  BY DEF Content
<1> HIDE DEF rest
<1>7. ASSUME NEW i \in 1 .. (count - m)
      PROVE  buf[(read_pos' + i - 1) % N] = rest[i]
  <2>1. i - 1 \in 0 .. N /\ m + (i - 1) <= N /\ m + i \in 1 .. count
    BY <1>1
  <2>2. ((((read_pos + m) % N) + (i - 1)) % N) = ((read_pos + (m + (i - 1))) % N)
    BY <1>1, <2>1, ModAdd
  <2>3. read_pos + (m + (i - 1)) = read_pos + (m + i) - 1 /\ read_pos' + (i - 1) = read_pos' + i - 1
    BY <1>1, <1>2
  <2>4. rest[i] = buf[(read_pos + (m + i) - 1) % N]
    BY <1>4, <1>5, <2>1
  <2> QED BY <2>2, <2>3, <2>4
<1>8. rest = [i \in 1 .. (count - m) |-> rest[i]]
  BY <1>1, <1>5
<1>9. Content' = rest
  BY <1>6, <1>7, <1>8
<1> QED BY <1>1, <1>2, <1>3, <1>9 DEF rest

-----------------------------------------------------------------------------
fifoVars == <<Content, got, write_closed>>

LEMMA SameRing ==
    ASSUME RingInv, UNCHANGED ring, todo' \in [Tasks -> Seq(Bytes)]
    PROVE  RingInv' /\ Content' = Content
BY DEF RingInv, Content, ring

\* A read takes bytes, reports the end of the file, or blocks.
LEMMA ReadSimulates ==
    ASSUME RingInv, NEW t \in Tasks, NEW n \in Nat \ {0},
           ReadLoop(t, n), UNCHANGED ends, UNCHANGED todo
    PROVE  RingInv' /\ [FIFO!Next]_fifoVars
<1>1. /\ todo' \in [Tasks -> Seq(Bytes)] /\ write_closed' = write_closed
      /\ N \in Nat \ {0} /\ count \in 0 .. N
  BY PipeAssumption DEF RingInv, ends
<1>2. Content \in Seq(Bytes) /\ Len(Content) = count
  BY ContentFacts
<1>3. CASE count = 0 /\ ~ write_closed /\ UNCHANGED <<ring, got>>
  <2>1. RingInv' /\ Content' = Content
    BY <1>1, <1>3, SameRing
  <2> QED BY <1>1, <1>3, <2>1 DEF fifoVars
<1>4. CASE count = 0 /\ write_closed /\ got' = <<>> /\ UNCHANGED ring
  <2>1. RingInv' /\ Content' = Content
    BY <1>1, <1>4, SameRing
  <2>2. Content = <<>>
    BY <1>2, <1>4
  <2>3. FIFO!EndOfFile
    BY <1>1, <1>4, <2>1, <2>2 DEF FIFO!EndOfFile
  <2> QED BY <2>1, <2>3 DEF FIFO!Next
<1>5. CASE /\ count > 0
           /\ got' = SubSeq(Content, 1, IF n < count THEN n ELSE count)
           /\ read_pos' = (read_pos + (IF n < count THEN n ELSE count)) % N
           /\ count' = count - (IF n < count THEN n ELSE count)
           /\ UNCHANGED <<buf, write_pos>>
  <2> DEFINE m == IF n < count THEN n ELSE count
  <2>1. m \in 1 .. count /\ m \in 1 .. N
    BY <1>1, <1>5
  <2>2. /\ read_pos' = (read_pos + m) % N /\ count' = count - m
        /\ buf' = buf /\ write_pos' = write_pos /\ got' = SubSeq(Content, 1, m)
    BY <1>5
  <2> HIDE DEF m
  <2>3. /\ Content' = SubSeq(Content, m + 1, Len(Content))
        /\ read_pos' \in 0 .. (N - 1) /\ count' \in 0 .. N
        /\ write_pos' = (read_pos' + count') % N
    BY <2>1, <2>2, GetTakes
  <2>4. RingInv'
    BY <1>1, <2>2, <2>3 DEF RingInv
  <2>5. FIFO!Get(m)
    BY <1>1, <1>2, <2>1, <2>2, <2>3 DEF FIFO!Get
  <2> QED BY <2>1, <2>4, <2>5 DEF FIFO!Next
<1> QED BY <1>3, <1>4, <1>5 DEF ReadLoop

\* An iteration of a write puts a byte, or leaves the queue alone.
LEMMA WriteSimulates ==
    ASSUME RingInv, NEW t \in Tasks, write_step(t)
    PROVE  RingInv' /\ [FIFO!Next]_fifoVars
<1>1. /\ got' = got /\ write_closed' = write_closed
      /\ N \in Nat \ {0} /\ count \in 0 .. N /\ todo \in [Tasks -> Seq(Bytes)]
  BY PipeAssumption DEF write_step, RingInv, ends
<1>2. CASE UNCHANGED ring /\ Return(t)
  <2>1. todo' \in [Tasks -> Seq(Bytes)]
    BY <1>1, <1>2 DEF Return
  <2>2. RingInv' /\ Content' = Content
    BY <1>2, <2>1, SameRing
  <2> QED BY <1>1, <2>2 DEF fifoVars
<1>3. CASE UNCHANGED ring /\ UNCHANGED todo
  <2>1. RingInv' /\ Content' = Content
    BY <1>1, <1>3, SameRing
  <2> QED BY <1>1, <2>1 DEF fifoVars
<1>4. CASE /\ todo[t] # <<>> /\ count < N
           /\ buf' = [buf EXCEPT ![write_pos] = Head(todo[t])]
           /\ write_pos' = (write_pos + 1) % N
           /\ count' = count + 1
           /\ todo' = [todo EXCEPT ![t] = Tail(@)]
           /\ UNCHANGED read_pos
  <2>1. todo[t] \in Seq(Bytes) /\ todo[t] # <<>>
    BY <1>1, <1>4
  <2>2. Head(todo[t]) \in Bytes /\ Tail(todo[t]) \in Seq(Bytes)
    BY <2>1
  <2>3. todo' \in [Tasks -> Seq(Bytes)]
    BY <1>1, <1>4, <2>2
  <2>4. /\ Content' = Append(Content, Head(todo[t]))
        /\ buf' \in [0 .. (N - 1) -> Bytes] /\ count' \in 0 .. N
        /\ write_pos' = (read_pos' + count') % N
    BY <1>4, <2>2, PutAppends
  <2>5. RingInv'
    BY <1>4, <2>3, <2>4 DEF RingInv
  <2>6. FIFO!Put(Head(todo[t]))
    BY <1>1, <1>4, <2>4, ContentFacts DEF FIFO!Put
  <2> QED BY <2>2, <2>5, <2>6 DEF FIFO!Next
<1> QED BY <1>2, <1>3, <1>4 DEF write_step

\* Closing the last descriptor of the write end closes the queue.
LEMMA CloseSimulates ==
    ASSUME RingInv, write_closed \in BOOLEAN, NEW t \in Tasks, NEW es,
           CloseEnds(t, es), UNCHANGED <<ring, got, todo>>
    PROVE  RingInv' /\ [FIFO!Next]_fifoVars
<1>1. todo' \in [Tasks -> Seq(Bytes)]
  BY DEF RingInv
<1>2. RingInv' /\ Content' = Content /\ got' = got
  BY <1>1, SameRing
<1>3. CASE "w" \in LastEnds(t, es)
  <2>1. write_closed' = TRUE
    BY <1>3 DEF CloseEnds
  <2> QED BY <1>2, <2>1 DEF FIFO!Next, FIFO!Close
<1>4. CASE "w" \notin LastEnds(t, es)
  <2>1. write_closed' = (write_closed \/ FALSE)
    BY <1>4 DEF CloseEnds
  <2> QED BY <1>2, <2>1 DEF fifoVars
<1> QED BY <1>3, <1>4

-----------------------------------------------------------------------------
\* The rest of the state, and a blocked read is of at least one byte.
CallInv ==
    /\ read_closed \in BOOLEAN /\ write_closed \in BOOLEAN
    /\ blocked_reader \in Tasks \cup {Null} /\ blocked_writer \in Tasks \cup {Null}
    /\ holds \in [Tasks -> SUBSET Both]
    /\ busy \in Tasks \cup {Null}
    /\ at \in [Tasks -> {"user", "read", "write"}]
    /\ size \in [Tasks -> 0 .. MaxSize]
    /\ got \in Seq(Bytes)
    /\ dead \in SUBSET Tasks
    /\ \A t \in Tasks : at[t] = "read" => size[t] # 0

LEMMA ReadCallInv ==
    ASSUME RingInv, CallInv, NEW t \in Tasks, NEW n \in 1 .. MaxSize,
           ReadLoop(t, n), UNCHANGED <<ends, busy, todo, dead>>
    PROVE  CallInv'
<1>1. /\ blocked_reader' \in Tasks \cup {Null} /\ blocked_writer' \in Tasks \cup {Null}
  BY DEF CallInv, ReadLoop
<1>2. \/ at' = [at EXCEPT ![t] = "read"] /\ size' = [size EXCEPT ![t] = n]
      \/ at' = [at EXCEPT ![t] = "user"] /\ size' = [size EXCEPT ![t] = 0]
  BY DEF ReadLoop
<1>3. /\ at' \in [Tasks -> {"user", "read", "write"}]
      /\ size' \in [Tasks -> 0 .. MaxSize]
      /\ \A u \in Tasks : at'[u] = "read" => size'[u] # 0
  <2>1. /\ at \in [Tasks -> {"user", "read", "write"}] /\ size \in [Tasks -> 0 .. MaxSize]
        /\ \A u \in Tasks : at[u] = "read" => size[u] # 0
        /\ n \in 0 .. MaxSize /\ n # 0 /\ 0 \in 0 .. MaxSize
    BY PipeAssumption DEF CallInv
  <2>2. CASE at' = [at EXCEPT ![t] = "read"] /\ size' = [size EXCEPT ![t] = n]
    BY <2>1, <2>2
  <2>3. CASE at' = [at EXCEPT ![t] = "user"] /\ size' = [size EXCEPT ![t] = 0]
    BY <2>1, <2>3
  <2> QED BY <1>2, <2>2, <2>3
<1>4. got' \in Seq(Bytes)
  <2>1. Content \in Seq(Bytes) /\ Len(Content) = count /\ count \in Nat
    BY ContentFacts, PipeAssumption DEF RingInv
  <2>2. CASE got' = got
    BY <2>2 DEF CallInv
  <2>3. CASE got' = <<>>
    BY <2>3
  <2>4. CASE got' = SubSeq(Content, 1, IF n < count THEN n ELSE count)
    <3>1. (IF n < count THEN n ELSE count) \in 0 .. Len(Content)
      BY <2>1
    <3> QED BY <2>1, <2>4, <3>1
  <2> QED BY <2>2, <2>3, <2>4 DEF ReadLoop
<1> QED BY <1>1, <1>3, <1>4 DEF CallInv, ends

LEMMA CloseCallInv ==
    ASSUME CallInv, NEW t \in Tasks, NEW es, CloseEnds(t, es),
           UNCHANGED <<calls, got>>, dead' \in SUBSET Tasks
    PROVE  CallInv'
BY DEF CallInv, CloseEnds, calls

SimInv == RingInv /\ CallInv

LEMMA SimInit == ASSUME Init PROVE SimInv /\ FIFO!Init
<1>1. (CHOOSE b \in Bytes : TRUE) \in Bytes
  BY PipeAssumption
<1>2. RingInv
  BY <1>1, PipeAssumption DEF Init, RingInv
<1>3. CallInv
  BY PipeAssumption DEF Init, CallInv, Both
<1>4. Content = <<>>
  BY <1>2, ContentFacts DEF Init
<1> QED BY <1>2, <1>3, <1>4 DEF SimInv, FIFO!Init, Init

\* Every step of the pipe preserves the invariant and is a step of the queue, or
\* leaves the queue alone.
LEMMA SimStep ==
    ASSUME SimInv, [Next]_vars
    PROVE  SimInv' /\ [FIFO!Next]_fifoVars
<1> USE DEF SimInv
<1>1. todo \in [Tasks -> Seq(Bytes)] /\ write_closed \in BOOLEAN
  BY DEF RingInv, CallInv
<1>2. ASSUME UNCHANGED <<ring, write_closed, got>>, todo' \in [Tasks -> Seq(Bytes)]
      PROVE  RingInv' /\ [FIFO!Next]_fifoVars
  BY <1>2, SameRing DEF fifoVars
<1>3. ASSUME NEW t \in Tasks, NEW u \in Tasks, fork(t, u)
      PROVE  SimInv' /\ [FIFO!Next]_fifoVars
  <2>1. UNCHANGED <<ring, write_closed, got, todo>>
    BY <1>3 DEF fork, calls
  <2>2. CallInv'
    BY <1>3 DEF CallInv, fork, calls, slots
  <2> QED BY <1>1, <1>2, <2>1, <2>2
<1>4. ASSUME NEW t \in Tasks, NEW u \in Tasks, kill(t, u)
      PROVE  SimInv' /\ [FIFO!Next]_fifoVars
  <2>1. /\ CloseEnds(u, Both) /\ UNCHANGED <<ring, got, todo, calls>>
        /\ dead' \in SUBSET Tasks
    BY <1>4 DEF kill, calls, CallInv
  <2> QED BY <1>1, <2>1, CloseSimulates, CloseCallInv
<1>5. ASSUME NEW t \in Tasks, NEW n \in 1 .. MaxSize, read(t, n)
      PROVE  SimInv' /\ [FIFO!Next]_fifoVars
  <2>1. /\ ReadLoop(t, n) /\ UNCHANGED <<ends, busy, todo, dead>>
        /\ n \in Nat \ {0}
    BY <1>5, PipeAssumption DEF read
  <2> QED BY <2>1, ReadSimulates, ReadCallInv
<1>6. ASSUME NEW t \in Tasks, NEW data \in Data, write(t, data)
      PROVE  SimInv' /\ [FIFO!Next]_fifoVars
  <2>1. data \in Seq(Bytes)
    <3>1. PICK n \in 1 .. MaxSize : data \in [1 .. n -> Bytes]
      BY DEF Data
    <3>2. n \in Nat
      BY PipeAssumption
    <3> QED BY <3>1, <3>2, SeqDef
  <2>2. /\ UNCHANGED <<ring, write_closed, got>> /\ todo' \in [Tasks -> Seq(Bytes)]
    BY <1>1, <1>6, <2>1 DEF write, ends
  <2>3. CallInv'
    BY <1>6 DEF CallInv, write, ends, slots
  <2> QED BY <1>2, <2>2, <2>3
<1>7. ASSUME NEW t \in Tasks, NEW e \in Both, close(t, e)
      PROVE  SimInv' /\ [FIFO!Next]_fifoVars
  <2>1. /\ CloseEnds(t, {e}) /\ UNCHANGED <<ring, got, todo, calls>>
        /\ dead' \in SUBSET Tasks
    BY <1>7 DEF close, calls, CallInv
  <2> QED BY <1>1, <2>1, CloseSimulates, CloseCallInv
<1>8. ASSUME NEW t \in Tasks, exit(t)
      PROVE  SimInv' /\ [FIFO!Next]_fifoVars
  <2>1. /\ CloseEnds(t, Both) /\ UNCHANGED <<ring, got, todo, calls>>
        /\ dead' \in SUBSET Tasks
    BY <1>8 DEF exit, calls, CallInv
  <2> QED BY <1>1, <2>1, CloseSimulates, CloseCallInv
<1>9. ASSUME NEW t \in Tasks, read_resume(t)
      PROVE  SimInv' /\ [FIFO!Next]_fifoVars
  <2>1. /\ ReadLoop(t, size[t]) /\ UNCHANGED <<ends, busy, todo, dead>>
        /\ size[t] \in 1 .. MaxSize /\ size[t] \in Nat \ {0}
    BY <1>9, PipeAssumption DEF read_resume, Resumed, CallInv
  <2> QED BY <2>1, ReadSimulates, ReadCallInv
<1>10. ASSUME NEW t \in Tasks, write_resume(t)
       PROVE  SimInv' /\ [FIFO!Next]_fifoVars
  <2>1. UNCHANGED <<ring, write_closed, got, todo>>
    BY <1>10 DEF write_resume, ends
  <2>2. CallInv'
    BY <1>10 DEF CallInv, write_resume, ends
  <2> QED BY <1>1, <1>2, <2>1, <2>2
<1>11. ASSUME NEW t \in Tasks, write_step(t)
       PROVE  SimInv' /\ [FIFO!Next]_fifoVars
  <2>1. CallInv'
    BY <1>11 DEF CallInv, write_step, Return, ends, slots
  <2> QED BY <1>11, <2>1, WriteSimulates
<1>12. ASSUME preempt \/ UNCHANGED vars
       PROVE  SimInv' /\ [FIFO!Next]_fifoVars
  <2>1. UNCHANGED <<ring, ends, slots, calls, got, dead>>
    BY <1>12 DEF preempt, vars
  <2>2. UNCHANGED <<ring, write_closed, got, todo>>
    BY <2>1 DEF ends, calls
  <2>3. CallInv'
    BY <2>1 DEF CallInv, ends, slots, calls
  <2> QED BY <1>1, <1>2, <2>2, <2>3
<1> QED BY <1>3, <1>4, <1>5, <1>6, <1>7, <1>8, <1>9, <1>10, <1>11, <1>12
        DEF Next, UserStep, KernelStep

\* The pipe delivers its bytes in order, each once, and reports the end of the
\* file after the last (pipe_read_op, pipe_write_op and the two close operations),
\* for every size of the buffer and of the calls, and however many tasks use it.
THEOREM DeliversInOrder == Spec => RefinesFIFO
<1>1. Init => SimInv /\ FIFO!Init
  BY SimInit
<1>2. SimInv /\ [Next]_vars => SimInv' /\ [FIFO!Next]_<<Content, got, write_closed>>
  BY SimStep DEF fifoVars
<1> QED BY <1>1, <1>2, PTL DEF Spec, RefinesFIFO, FIFO!Spec

-----------------------------------------------------------------------------
\* The scheduler under the pipe: no task of this workload polls.
Quiet(x) == Sound(x) /\ x.iow = <<>>

LEMMA SwitchQuiet ==
    ASSUME NEW x, Quiet(x)
    PROVE  Quiet(sched_switch(x))
<1>1. x \in SchedType /\ Sound(sched_switch(x))
  BY SwitchSound DEF Quiet, Sound
<1>2. sched_switch(x).iow = x.iow
  BY <1>1 DEF sched_switch, sched_enqueue, sched_dequeue, SchedType
<1> QED BY <1>1, <1>2 DEF Quiet

LEMMA UnblockQuiet ==
    ASSUME NEW x, Quiet(x), NEW slot \in Tasks \cup {Null}
    PROVE  /\ Quiet(UnblockSlot(x, slot))
           /\ slot \in Tasks => Quiet(sched_unblock(x, slot))
<1>1. ASSUME slot \in Tasks
      PROVE  Quiet(sched_enqueue(x, slot))
  <2>1. x \in SchedType /\ Sound(sched_enqueue(x, slot))
    BY <1>1, EnqueueSound DEF Quiet, Sound
  <2>2. sched_enqueue(x, slot).iow = x.iow
    BY <2>1 DEF sched_enqueue, SchedType
  <2> QED BY <2>1, <2>2 DEF Quiet
<1> QED BY <1>1 DEF UnblockSlot, sched_unblock

LEMMA BlockQuiet ==
    ASSUME NEW x, Quiet(x), NEW t \in Tasks
    PROVE  Quiet(sched_switch(sched_block(x, t)))
<1>1. x \in SchedType /\ Sound(sched_block(x, t))
  BY BlockSound DEF Quiet, Sound
<1>2. sched_block(x, t).iow = x.iow
  BY <1>1 DEF sched_block, sched_dequeue, SchedType
<1> QED BY <1>1, <1>2, SwitchQuiet DEF Quiet

LEMMA WakesQuiet ==
    ASSUME NEW x, Quiet(x), CallInv, NEW last
    PROVE  Quiet(CloseWakes(last, x)) /\ Quiet(WakeShell(x)) /\ Quiet(WakeAll(x))
<1>1. Quiet(CloseWakes(last, x))
  BY UnblockQuiet DEF CloseWakes, CallInv
<1>2. Quiet(WakeShell(x))
  BY UnblockQuiet, PipeAssumption DEF WakeShell
<1>3. WakeAll(x) = x
  BY DEF WakeAll, Quiet
<1> QED BY <1>1, <1>2, <1>3

\* The current task dies: its place on the run queue goes in the switch.
LEMMA ExitQuiet ==
    ASSUME NEW x, Quiet(x), NEW t \in Tasks, x.cur = t
    PROVE  Quiet(sched_switch(Die(x, t)))
<1> DEFINE y == Die(x, t)
<1>1. x \in SchedType /\ QueuesOrdered(x) /\ x.iow = <<>>
      /\ \A u \in Tasks : Queued(x, u) <=> x.state[u] = "RUNNABLE"
  BY DEF Quiet, Sound, QueuesExact
<1>2. /\ y \in SchedType /\ y.runq = x.runq /\ y.cur = t /\ y.iow = x.iow
      /\ \A u \in Tasks \ {t} : y.state[u] = x.state[u]
  BY <1>1 DEF Die, SchedType, States
<1> HIDE DEF y
<1>3. ExactBut(y, y.cur)
  BY <1>1, <1>2 DEF ExactBut, QueuesOrdered, Queued
<1>4. sched_switch(y) \in SchedType /\ QueuesExact(sched_switch(y))
  BY <1>2, <1>3, SwitchExact
<1>5. sched_switch(y).iow = y.iow
  BY <1>2 DEF sched_switch, sched_enqueue, sched_dequeue, SchedType
<1> QED BY <1>1, <1>2, <1>4, <1>5 DEF y, Quiet, Sound

\* Another task is killed: sched_forget takes it off the queues.
LEMMA ForgetQuiet ==
    ASSUME NEW x, Quiet(x), NEW t \in Tasks
    PROVE  Quiet(sched_forget(Die(x, t), t))
<1> DEFINE d == Die(x, t)
           e == sched_dequeue(d, t)
           z == Unlink(e, t)
<1>1. x \in SchedType /\ QueuesOrdered(x) /\ x.iow = <<>>
      /\ \A u \in Tasks : Queued(x, u) <=> x.state[u] = "RUNNABLE"
  BY DEF Quiet, Sound, QueuesExact
<1>2. /\ d \in SchedType /\ d.runq = x.runq /\ d.iow = <<>>
      /\ \A u \in Tasks \ {t} : d.state[u] = x.state[u]
      /\ d.state[t] = "ZOMBIE"
  BY <1>1 DEF Die, SchedType, States
<1> HIDE DEF d
<1>3. QueuesOrdered(d) /\ \A u \in Tasks : Queued(d, u) <=> Queued(x, u)
  BY <1>1, <1>2 DEF QueuesOrdered, Queued
<1>4. /\ e \in SchedType /\ QueuesOrdered(e) /\ e.state = d.state
      /\ \A u \in Tasks : Queued(e, u) <=> Queued(d, u) /\ u # t
  BY <1>2, <1>3, DequeueEffect
<1>5. e.iow = <<>>
  BY <1>2 DEF sched_dequeue, SchedType
<1> HIDE DEF e
<1>6. \A u \in Tasks : Queued(e, u) <=> e.state[u] = "RUNNABLE"
  BY <1>1, <1>2, <1>3, <1>4
<1>7. Sound(e)
  BY <1>4, <1>6 DEF Sound, QueuesExact
<1>8. Sound(z) /\ z.iow = <<>>
  BY <1>5, <1>7, UnlinkSound
<1>9. sched_forget(d, t) = [z EXCEPT !.snext[t] = Null, !.iow = DropWaiter(z.iow, t)]
  BY DEF sched_forget, z, e
<1> HIDE DEF z
<1>10. DropWaiter(z.iow, t) = <<>>
  <2>1. Places(z.iow, t) = {}
    BY <1>8 DEF Places
  <2> QED BY <1>8, <2>1 DEF DropWaiter
<1> DEFINE w == [z EXCEPT !.snext[t] = Null, !.iow = <<>>]
<1>11. w \in SchedType /\ w.state = z.state /\ w.runq = z.runq /\ w.iow = <<>>
  BY <1>8 DEF Sound, SchedType
<1> HIDE DEF w
<1>12. Sound(w)
  BY <1>8, <1>11, SameSound
<1> QED BY <1>9, <1>10, <1>11, <1>12 DEF Quiet, w, d

PipeInv ==
    /\ SimInv /\ Quiet(s)
    /\ busy # Null => s.cur = busy

\* Every step leaves the scheduler sound; the task in the loop of a write runs.
LEMMA QuietStep ==
    ASSUME PipeInv, [Next]_vars
    PROVE  Quiet(s') /\ (busy' # Null => s'.cur = busy')
<1>1. /\ RingInv /\ CallInv /\ Quiet(s) /\ s \in SchedType
      /\ (busy # Null => s.cur = busy)
  BY DEF PipeInv, SimInv, Quiet, Sound
<1>2. /\ blocked_reader \in Tasks \cup {Null} /\ blocked_writer \in Tasks \cup {Null}
      /\ Null \notin Tasks
  BY <1>1, TaskAssumption DEF CallInv
<1>3. ASSUME NEW t \in Tasks, NEW u \in Tasks, fork(t, u)
      PROVE  Quiet(s') /\ busy' = Null
  <2>1. Quiet(sched_unblock(s, u))
    BY <1>1, UnblockQuiet
  <2> QED BY <1>3, <2>1 DEF fork, InUser, Resumed, calls, sched_unblock
<1>4. ASSUME NEW t \in Tasks, NEW u \in Tasks, kill(t, u)
      PROVE  Quiet(s') /\ busy' = Null
  <2>1. Quiet(sched_forget(Die(s, u), u))
    BY <1>1, ForgetQuiet
  <2>2. Quiet(CloseWakes(LastEnds(u, Both), sched_forget(Die(s, u), u)))
    BY <1>1, <2>1, WakesQuiet
  <2>3. Quiet(WakeShell(CloseWakes(LastEnds(u, Both), sched_forget(Die(s, u), u))))
    BY <1>1, <2>2, WakesQuiet
  <2> QED BY <1>4, <2>3 DEF kill, InUser, Resumed, calls
<1>5. ASSUME NEW t \in Tasks, NEW n, ReadLoop(t, n), busy = Null, busy' = busy
      PROVE  Quiet(s') /\ busy' = Null
  <2>1. Quiet(sched_switch(sched_block(s, t)))
    BY <1>1, BlockQuiet
  <2>2. Quiet(UnblockSlot(s, blocked_writer))
    BY <1>1, <1>2, UnblockQuiet
  <2>3. Quiet(s')
    BY <1>1, <1>5, <2>1, <2>2 DEF ReadLoop
  <2> QED BY <1>5, <2>3
<1>6. ASSUME NEW t \in Tasks, NEW data, write(t, data)
      PROVE  Quiet(s') /\ s'.cur = busy'
  BY <1>1, <1>6 DEF write, InUser, Resumed
<1>7. ASSUME NEW t \in Tasks, NEW e \in Both, close(t, e)
      PROVE  Quiet(s') /\ busy' = Null
  <2>1. Quiet(CloseWakes(LastEnds(t, {e}), s))
    BY <1>1, WakesQuiet
  <2> QED BY <1>7, <2>1 DEF close, InUser, Resumed, calls
<1>8. ASSUME NEW t \in Tasks, exit(t)
      PROVE  Quiet(s') /\ busy' = Null
  <2> DEFINE x1 == CloseWakes(LastEnds(t, Both), s)
             x2 == WakeShell(x1)
  <2>1. Quiet(x1)
    BY <1>1, WakesQuiet
  <2>2. Quiet(x2)
    BY <1>1, <2>1, WakesQuiet
  <2>3. x1.cur = s.cur
    BY <1>1 DEF CloseWakes, UnblockSlot, sched_unblock, sched_enqueue, SchedType
  <2>4. x2.cur = x1.cur
    <3>1. x1 \in SchedType
      BY <2>1 DEF Quiet, Sound
    <3> HIDE DEF x1
    <3> QED BY <3>1 DEF WakeShell, sched_unblock, sched_enqueue, SchedType
  <2>5. s.cur = t /\ busy' = Null /\ s' = sched_switch(Die(x2, t))
    BY <1>8 DEF exit, InUser, Resumed, calls
  <2> HIDE DEF x1, x2
  <2> QED BY <2>2, <2>3, <2>4, <2>5, ExitQuiet
<1>9. ASSUME NEW t \in Tasks, write_resume(t)
      PROVE  Quiet(s') /\ s'.cur = busy'
  BY <1>1, <1>9 DEF write_resume, Resumed
<1>10. ASSUME NEW t \in Tasks, write_step(t)
       PROVE  Quiet(s') /\ (busy' # Null => s'.cur = busy')
  <2>1. Quiet(sched_switch(sched_block(s, t)))
    BY <1>1, BlockQuiet
  <2>2. WakeAll(s) = s
    BY <1>1 DEF WakeAll, Quiet
  <2>3. /\ Quiet(UnblockSlot(s, blocked_reader))
        /\ UnblockSlot(s, blocked_reader).cur = s.cur
    BY <1>1, <1>2, UnblockQuiet DEF UnblockSlot, sched_unblock, sched_enqueue, SchedType
  <2> QED BY <1>1, <1>10, <2>1, <2>2, <2>3 DEF write_step, Return
<1>11. ASSUME preempt
       PROVE  Quiet(s') /\ busy' = Null
  BY <1>1, <1>11, SwitchQuiet DEF preempt, calls
<1>12. ASSUME UNCHANGED vars
       PROVE  Quiet(s') /\ (busy' # Null => s'.cur = busy')
  BY <1>1, <1>12 DEF vars, calls
<1>13. ASSUME NEW t \in Tasks, NEW n, read(t, n) \/ read_resume(t)
       PROVE  Quiet(s') /\ busy' = Null
  <2>1. busy = Null /\ busy' = busy
        /\ (ReadLoop(t, n) \/ ReadLoop(t, size[t]))
    BY <1>13 DEF read, read_resume, InUser, Resumed
  <2> QED BY <1>5, <2>1
<1>14. CASE UserStep
  BY <1>3, <1>4, <1>6, <1>7, <1>8, <1>13, <1>14 DEF UserStep
<1>15. CASE KernelStep
  BY <1>9, <1>10, <1>13, <1>15 DEF KernelStep
<1> QED BY <1>11, <1>12, <1>14, <1>15 DEF Next

LEMMA PipeInit == ASSUME Init PROVE PipeInv
<1>1. s \in SchedType /\ s.iow = <<>>
  BY PipeAssumption, PrioAssumption, TaskAssumption DEF Init, SchedInit, SchedType, States
<1>2. QueuesExact(s)
  BY PipeAssumption, PrioAssumption
     DEF Init, SchedInit, QueuesExact, QueuesOrdered, Queued
<1> QED BY <1>1, <1>2, SimInit DEF PipeInv, Init, Quiet, Sound

LEMMA PipeStep == ASSUME PipeInv, [Next]_vars PROVE PipeInv'
<1>1. SimInv'
  BY SimStep DEF PipeInv
<1>2. Quiet(s') /\ (busy' # Null => s'.cur = busy')
  BY QuietStep
<1> QED BY <1>1, <1>2 DEF PipeInv, Quiet, Sound

\* Every state of the pipe, the scheduler included, is well typed: no position or
\* count leaves the buffer.
THEOREM PipeTypes == Spec => []TypeOK
<1>1. Init => PipeInv
  BY PipeInit
<1>2. PipeInv /\ [Next]_vars => PipeInv'
  BY PipeStep
<1>3. PipeInv => TypeOK
  <2> SUFFICES ASSUME PipeInv PROVE TypeOK
    OBVIOUS
  <2>1. write_pos \in 0 .. (N - 1)
    BY PipeAssumption DEF PipeInv, SimInv, RingInv
  <2> QED BY <2>1 DEF PipeInv, SimInv, RingInv, CallInv, Quiet, Sound, TypeOK
<1> QED BY <1>1, <1>2, <1>3, PTL DEF Spec
=============================================================================

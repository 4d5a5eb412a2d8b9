--------------------------- MODULE BusPollingProofs ---------------------------
(***************************************************************************)
(* Proofs about one key of the bus data, for every number of runs and      *)
(* requests and every setting of the timers: the type invariant; how old   *)
(* an answer may be, and how far answers may go back in time, whatever     *)
(* overlaps.                                                               *)
(***************************************************************************)
EXTENDS BusPolling, TLAPS

USE PollingAssumption DEF PollingAssumption

-----------------------------------------------------------------------------
(* Types *)

\* The parts of the type invariant.
Flags == healthy \in BOOLEAN /\ up \in BOOLEAN /\ inFlight \in BOOLEAN
Runs ==
    /\ phase \in [Run -> {"idle", "asked", "answered", "writing"}]
    /\ callAge \in [Run -> Nat]
    /\ \A r \in Run : /\ phase[r] \in {"asked", "answered"} => callAge[r] \in 0 .. FetchTimeout
                      /\ phase[r] = "writing" => callAge[r] \in 0 .. WriteTime
    /\ copyOf \in [Run -> Copy]
Reads ==
    /\ mem \in Copy /\ memLeft \in 0 .. MemTTL
    /\ request \in [Request -> {"idle", "reading", "read"}]
    /\ readAge \in [Request -> 0 .. ReadTime]
    /\ readData \in [Request -> Copy]
    /\ past \in [0 .. Lag -> Age]
Rest ==
    /\ timerLeft \in 0 .. Interval
    /\ doc \in Copy /\ stamp \in Age
    /\ answer \in Copy

LEMMA Parts == TypeOK <=> Flags /\ Runs /\ Reads /\ Rest
BY DEF TypeOK, Flags, Runs, Reads, Rest

\* A copy that grows older is a copy, older by one at most; None stays None.
LEMMA OlderFacts ==
    ASSUME NEW x \in Copy
    PROVE  /\ Older(x) \in Copy /\ Older(x) <= x + 1
           /\ Older(x) = None <=> x = None
           /\ x \in Age => Older(x) \in Age /\ Older(x) >= x
BY DEF Copy, Age, None, Older

\* A timer that runs down stays in its range.
LEMMA LessFacts ==
    ASSUME NEW n \in Nat, NEW x \in 0 .. n
    PROVE  Less(x) \in 0 .. n /\ (Less(x) > 0 => x > 0 /\ Less(x) = x - 1)
BY DEF Less

\* What is nobody's data, what has just been read, and the longest a read is kept.
LEMMA CopyFacts == /\ None \in Copy /\ 0 \in Copy /\ 0 \in Age /\ Age \subseteq Copy
                   /\ Lag \in Nat \ {0}
BY DEF Copy, Age, None, Lag

\* Initially.
LEMMA TypeInit == Init => TypeOK
<1> SUFFICES ASSUME Init PROVE Flags /\ Runs /\ Reads /\ Rest
  BY Parts
<1>1. Flags
  BY DEF Init, Flags
<1>2. Runs
  BY CopyFacts DEF Init, Runs
<1>3. Reads
  BY CopyFacts DEF Init, Reads, Age
<1>4. Rest
  BY CopyFacts DEF Init, Rest
<1> QED
  BY <1>1, <1>2, <1>3, <1>4

\* A tick.
LEMMA TickTypes == ASSUME TypeOK, Tick PROVE TypeOK'
<1>1. Flags /\ Runs /\ Reads /\ Rest
  BY Parts
<1>2. Flags'
  BY <1>1 DEF Flags, Tick
<1>3. Runs'
  <2>1. phase' = phase /\ callAge' = [r \in Run |-> IF phase[r] = "idle" THEN 0 ELSE callAge[r] + 1]
        /\ copyOf' = [r \in Run |-> Older(copyOf[r])]
    BY DEF Tick
  <2>2. \A r \in Run : /\ phase[r] \in {"asked", "answered"} => callAge[r] < FetchTimeout
                       /\ phase[r] = "writing" => callAge[r] < WriteTime
    BY DEF Tick, InTime
  <2>3. copyOf' \in [Run -> Copy]
    BY <1>1, <2>1, OlderFacts DEF Runs
  <2> QED
    BY <1>1, <2>1, <2>2, <2>3 DEF Runs
<1>4. Reads'
  <2>1. mem' \in Copy /\ readData' \in [Request -> Copy]
    BY <1>1, OlderFacts DEF Reads, Tick
  <2>2. memLeft' \in 0 .. MemTTL
    BY <1>1, LessFacts DEF Reads, Tick
  <2>3. past' \in [0 .. Lag -> Age]
    <3>1. ASSUME NEW k \in 0 .. Lag PROVE Older(past[Less(k)]) \in Age
      <4>1. Less(k) \in 0 .. Lag
        BY CopyFacts, LessFacts
      <4> QED
        BY <1>1, <4>1, CopyFacts, OlderFacts DEF Reads
    <3> QED
      BY <3>1 DEF Tick
  <2>4. readAge' \in [Request -> 0 .. ReadTime]
    BY <1>1 DEF Reads, Tick, InTime
  <2>5. request' = request
    BY DEF Tick
  <2> QED
    BY <1>1, <2>1, <2>2, <2>3, <2>4, <2>5 DEF Reads
<1>5. Rest'
  <2>1. timerLeft' \in 0 .. Interval
    BY <1>1, LessFacts DEF Rest, Tick
  <2>2. doc' \in Copy /\ stamp' \in Age
    BY <1>1, CopyFacts, OlderFacts DEF Rest, Tick
  <2>3. answer' = None
    BY DEF Tick
  <2> QED
    BY <2>1, <2>2, <2>3, CopyFacts DEF Rest
<1> QED
  BY <1>2, <1>3, <1>4, <1>5, Parts DEF Flags, Runs, Reads, Rest, TypeOK

\* A run that starts in a free slot.
LEMMA GuardedTypes == ASSUME Runs, Flags, Guarded, UNCHANGED copyOf PROVE Runs' /\ inFlight' \in BOOLEAN
<1>1. CASE inFlight
  BY <1>1 DEF Guarded, Runs, Flags
<1>2. CASE ~inFlight
  <2>1. PICK r \in Run : /\ phase' = [phase EXCEPT ![r] = "asked"]
                         /\ callAge' = [callAge EXCEPT ![r] = 0]
    BY <1>2 DEF Guarded
  <2>2. inFlight' \in BOOLEAN
    BY <1>2 DEF Guarded
  <2>3. \A s \in Run : /\ phase'[s] = IF s = r THEN "asked" ELSE phase[s]
                       /\ callAge'[s] = IF s = r THEN 0 ELSE callAge[s]
    BY <2>1 DEF Runs
  <2>4. phase' \in [Run -> {"idle", "asked", "answered", "writing"}] /\ callAge' \in [Run -> Nat]
    BY <2>1 DEF Runs
  <2>5. Runs'
    BY <2>3, <2>4 DEF Runs
  <2> QED
    BY <2>2, <2>5
<1> QED
  BY <1>1, <1>2

\* A run that ends.
LEMMA EndsTypes == ASSUME Runs, NEW r \in Run, Ends(r) PROVE Runs' /\ answer' = None
<1>1. /\ phase' = [phase EXCEPT ![r] = "idle"] /\ callAge' = [callAge EXCEPT ![r] = 0]
      /\ copyOf' = [copyOf EXCEPT ![r] = None] /\ answer' = None
  BY DEF Ends
<1>2. \A s \in Run : /\ phase'[s] = IF s = r THEN "idle" ELSE phase[s]
                     /\ callAge'[s] = IF s = r THEN 0 ELSE callAge[s]
  BY <1>1 DEF Runs
<1>3. /\ phase' \in [Run -> {"idle", "asked", "answered", "writing"}]
      /\ callAge' \in [Run -> Nat] /\ copyOf' \in [Run -> Copy]
  BY <1>1, CopyFacts DEF Runs
<1> QED
  BY <1>1, <1>2, <1>3 DEF Runs

\* A run that goes on.
LEMMA GoesOnTypes ==
    ASSUME Runs, NEW r \in Run, UpstreamReads(r) \/ Transform(r) PROVE Runs'
<1>1. CASE UpstreamReads(r)
  <2>1. /\ phase[r] = "asked" /\ phase' = [phase EXCEPT ![r] = "answered"]
        /\ copyOf' = [copyOf EXCEPT ![r] = 0] /\ callAge' = callAge
    BY <1>1 DEF UpstreamReads
  <2>2. \A s \in Run : phase'[s] = IF s = r THEN "answered" ELSE phase[s]
    BY <2>1 DEF Runs
  <2>3. phase' \in [Run -> {"idle", "asked", "answered", "writing"}] /\ copyOf' \in [Run -> Copy]
    BY <2>1, CopyFacts DEF Runs
  <2> QED
    BY <2>1, <2>2, <2>3 DEF Runs
<1>2. CASE Transform(r)
  <2>1. /\ phase' = [phase EXCEPT ![r] = "writing"] /\ callAge' = [callAge EXCEPT ![r] = 0]
        /\ copyOf' = copyOf
    BY <1>2 DEF Transform
  <2>2. \A s \in Run : /\ phase'[s] = IF s = r THEN "writing" ELSE phase[s]
                       /\ callAge'[s] = IF s = r THEN 0 ELSE callAge[s]
    BY <2>1 DEF Runs
  <2>3. phase' \in [Run -> {"idle", "asked", "answered", "writing"}] /\ callAge' \in [Run -> Nat]
    BY <2>1 DEF Runs
  <2> QED
    BY <2>1, <2>2, <2>3 DEF Runs
<1> QED
  BY <1>1, <1>2

\* Every step keeps the types.
LEMMA TypeStep == ASSUME TypeOK, [Next]_vars PROVE TypeOK'
<1>0. Flags /\ Runs /\ Reads /\ Rest
  BY Parts
<1> SUFFICES ~Tick => Flags' /\ Runs' /\ Reads' /\ Rest'
  BY TickTypes DEF Flags, Runs, Reads, Rest, TypeOK
<1>1. CASE Flap
  <2>1. UNCHANGED <<up, inFlight, timerLeft, phase, callAge, copyOf, doc, stamp, mem, memLeft,
                    request, readAge, readData, past>> /\ answer' = None
    BY <1>1 DEF Flap, poller, cache, replica
  <2>2. Flags'
    BY <1>0, <1>1, <2>1 DEF Flags, Flap
  <2> QED
    BY <1>0, <2>1, <2>2, CopyFacts DEF Runs, Reads, Rest
<1>2. CASE Expire
  <2>1. UNCHANGED <<healthy, up, inFlight, timerLeft, phase, callAge, copyOf, mem, memLeft,
                    request, readAge, readData, past>>
        /\ answer' = None /\ doc' = None /\ stamp' = 0
    BY <1>2 DEF Expire, poller, replica
  <2> QED
    BY <1>0, <2>1, CopyFacts DEF Flags, Runs, Reads, Rest
<1>3. CASE StartAll \/ Fire
  <2>1. UNCHANGED <<healthy, copyOf, doc, stamp, mem, memLeft, request, readAge, readData, past>>
        /\ answer' = None /\ timerLeft' = Interval /\ Guarded
    BY <1>3 DEF StartAll, Fire, cache, replica
  <2>2. up' \in BOOLEAN
    BY <1>0, <1>3 DEF StartAll, Fire, Flags
  <2>3. Runs' /\ inFlight' \in BOOLEAN
    BY <1>0, <2>1, GuardedTypes
  <2>4. Flags'
    BY <1>0, <2>1, <2>2, <2>3 DEF Flags
  <2> QED
    BY <1>0, <2>1, <2>3, <2>4, CopyFacts DEF Reads, Rest
<1>4. CASE Stop
  <2>1. /\ UNCHANGED <<healthy, doc, stamp, mem, memLeft, request, readAge, readData, past>>
        /\ answer' = None /\ timerLeft' = 0
        /\ phase' = [r \in Run |-> "idle"] /\ callAge' = [r \in Run |-> 0]
        /\ copyOf' = [r \in Run |-> None]
    BY <1>4 DEF Stop, cache, replica
  <2>2. Flags'
    BY <1>0, <1>4 DEF Stop, Flags
  <2>3. Runs'
    BY <2>1, CopyFacts DEF Runs
  <2> QED
    BY <1>0, <2>1, <2>2, <2>3, CopyFacts DEF Reads, Rest
<1>5. ASSUME NEW r \in Run, RunStep(r) PROVE Flags' /\ Runs' /\ Reads' /\ Rest'
  <2>1. UNCHANGED <<healthy, up, timerLeft, mem, memLeft, request, readAge, readData, past>>
        /\ inFlight' \in {inFlight, FALSE} /\ answer' = None
    BY <1>5 DEF RunStep, UpstreamReads, Transform, FetchFails, WriteLands, WriteFails, Ends,
                cache, replica
  <2>2. Flags'
    BY <1>0, <2>1 DEF Flags
  <2>3. Runs'
    BY <1>0, <1>5, EndsTypes, GoesOnTypes DEF RunStep, FetchFails, WriteLands, WriteFails
  <2>4. doc' \in Copy /\ stamp' \in Age
    <3>1. CASE WriteLands(r)
      <4>1. phase[r] = "writing" /\ doc' = copyOf[r] /\ stamp' = callAge[r]
        BY <3>1 DEF WriteLands
      <4> QED
        BY <1>0, <4>1 DEF Runs, Age
    <3>2. CASE ~WriteLands(r)
      <4>1. UNCHANGED <<doc, stamp>>
        BY <1>5, <3>2 DEF RunStep, UpstreamReads, Transform, FetchFails, WriteFails, cache
      <4> QED
        BY <1>0, <4>1 DEF Rest
    <3> QED
      BY <3>1, <3>2
  <2> QED
    BY <1>0, <2>1, <2>2, <2>3, <2>4, CopyFacts DEF Reads, Rest
<1>6. ASSUME NEW q \in Request, AnswerFromMemory(q) \/ SendRead(q) \/ ReadStep(q)
      PROVE  Flags' /\ Runs' /\ Reads' /\ Rest'
  <2>1. UNCHANGED <<healthy, up, inFlight, timerLeft, phase, callAge, copyOf, doc, stamp>>
    BY <1>6 DEF AnswerFromMemory, SendRead, ReadStep, DbReads, AnswerFromDb, ReadFails,
                poller, cache
  <2>2. ASSUME NEW x \in Copy, Answers(x)
        PROVE  past' \in [0 .. Lag -> Age] /\ answer' \in Copy
    BY <1>0, <2>2, CopyFacts DEF Answers, Reads, Copy, Age, None
  <2>3. ASSUME Forget(q)
        PROVE  /\ request' \in [Request -> {"idle", "reading", "read"}]
               /\ readAge' \in [Request -> 0 .. ReadTime]
               /\ readData' \in [Request -> Copy]
    BY <1>0, <2>3, CopyFacts DEF Forget, Reads
  <2>4. CASE AnswerFromMemory(q)
    BY <1>0, <2>1, <2>2, <2>4 DEF AnswerFromMemory, Flags, Runs, Reads, Rest
  <2>5. CASE SendRead(q)
    BY <1>0, <2>1, <2>5, CopyFacts DEF SendRead, Flags, Runs, Reads, Rest
  <2>6. CASE DbReads(q)
    BY <1>0, <2>1, <2>6, CopyFacts DEF DbReads, Flags, Runs, Reads, Rest
  <2>7. CASE AnswerFromDb(q)
    <3>1. readData[q] \in Copy /\ mem' = readData[q] /\ memLeft' = MemTTL
          /\ Answers(readData[q]) /\ Forget(q)
      BY <1>0, <2>7 DEF AnswerFromDb, Reads
    <3> QED
      BY <1>0, <2>1, <2>2, <2>3, <3>1 DEF Flags, Runs, Reads, Rest
  <2>8. CASE ReadFails(q)
    BY <1>0, <2>1, <2>3, <2>8, CopyFacts DEF ReadFails, Flags, Runs, Reads, Rest
  <2> QED
    BY <1>6, <2>4, <2>5, <2>6, <2>7, <2>8 DEF ReadStep
<1>7. CASE UNCHANGED vars
  BY <1>0, <1>7 DEF vars, Flags, Runs, Reads, Rest
<1> QED
  BY <1>1, <1>2, <1>3, <1>4, <1>5, <1>6, <1>7 DEF Next

\* The variables keep their types.
THEOREM TypeCorrect == Spec => []TypeOK
BY TypeInit, TypeStep, PTL DEF Spec

-----------------------------------------------------------------------------
(* How old an answer may be *)

\* A document is written before its time is up.
WriteInTime == WriteTime <= DocTTL + DocSlack

\* A copy of the data is as old as the places it has been kept at allow.
RunAges ==
    \A r \in Run : /\ phase[r] = "answered" => copyOf[r] <= callAge[r]
                   /\ phase[r] = "writing" => copyOf[r] <= FetchTimeout + callAge[r]
DocAges == doc # None => doc <= FetchTimeout + stamp /\ stamp <= DocTTL + DocSlack
DocMost == FetchTimeout + DocTTL + DocSlack
ReadAges ==
    /\ \A q \in Request :
          request[q] = "read" /\ readData[q] # None => readData[q] <= DocMost + readAge[q]
    /\ memLeft > 0 /\ mem # None => mem <= DocMost + ReadTime + (MemTTL - memLeft)

AgeInv == TypeOK /\ RunAges /\ DocAges /\ ReadAges /\ AgeBounded

\* What a run carries is as old as its request and its write.
LEMMA RunAgesTick == ASSUME TypeOK, RunAges, Tick PROVE RunAges'
<1>0. Runs
  BY Parts
<1> SUFFICES ASSUME NEW r \in Run
    PROVE /\ phase'[r] = "answered" => copyOf'[r] <= callAge'[r]
          /\ phase'[r] = "writing" => copyOf'[r] <= FetchTimeout + callAge'[r]
  BY DEF RunAges
<1>1. copyOf[r] \in Copy /\ copyOf[r] \in Int /\ callAge[r] \in Nat
  BY <1>0 DEF Runs, Copy, Age, None
<1>2. phase'[r] = phase[r] /\ copyOf'[r] = Older(copyOf[r])
      /\ (phase[r] # "idle" => callAge'[r] = callAge[r] + 1)
  BY DEF Tick
<1>3. copyOf'[r] <= copyOf[r] + 1 /\ copyOf'[r] \in Int
  BY <1>1, <1>2, OlderFacts DEF Copy, Age, None
<1> QED
  BY <1>1, <1>2, <1>3 DEF RunAges

LEMMA RunAgesStep == ASSUME TypeOK, RunAges, [Next]_vars PROVE RunAges'
<1>0. Runs
  BY Parts
<1>1. CASE Tick
  BY <1>1, RunAgesTick
<1>2. CASE StartAll \/ Fire
  <2>1. UNCHANGED copyOf /\ Guarded
    BY <1>2 DEF StartAll, Fire
  <2>2. \A s \in Run : phase'[s] = "asked" \/ (phase'[s] = phase[s] /\ callAge'[s] = callAge[s])
    BY <1>0, <2>1 DEF Guarded, Runs
  <2> QED
    BY <2>1, <2>2 DEF RunAges
<1>3. CASE Stop
  BY <1>3 DEF Stop, RunAges
<1>4. ASSUME NEW r \in Run, RunStep(r) PROVE RunAges'
  <2>1. copyOf[r] \in Int /\ callAge[r] \in Nat
    BY <1>0 DEF Runs, Copy, Age, None
  <2>2. phase[r] = "answered" => copyOf[r] <= FetchTimeout
    BY <1>0, <2>1 DEF Runs, RunAges
  <2>3. \A s \in Run \ {r} : phase'[s] = phase[s] /\ callAge'[s] = callAge[s]
                             /\ copyOf'[s] = copyOf[s]
    BY <1>0, <1>4 DEF RunStep, UpstreamReads, Transform, FetchFails, WriteLands, WriteFails,
                      Ends, Runs
  <2>4. CASE UpstreamReads(r)
    <3>1. phase'[r] = "answered" /\ copyOf'[r] = 0 /\ callAge' = callAge
      BY <1>0, <2>4 DEF UpstreamReads, Runs
    <3> QED
      BY <2>1, <2>3, <3>1 DEF RunAges
  <2>5. CASE Transform(r)
    <3>1. phase[r] = "answered" /\ phase'[r] = "writing" /\ callAge'[r] = 0 /\ copyOf' = copyOf
      BY <1>0, <2>5 DEF Transform, Runs
    <3> QED
      BY <2>1, <2>2, <2>3, <3>1 DEF RunAges
  <2>6. CASE Ends(r)
    <3>1. phase'[r] = "idle"
      BY <1>0, <2>6 DEF Ends, Runs
    <3> QED
      BY <2>3, <3>1 DEF RunAges
  <2> QED
    BY <1>4, <2>4, <2>5, <2>6 DEF RunStep, FetchFails, WriteLands, WriteFails
<1>5. CASE UNCHANGED <<phase, callAge, copyOf>>
  BY <1>5 DEF RunAges
<1>6. \/ Tick \/ StartAll \/ Fire \/ Stop \/ (\E r \in Run : RunStep(r))
      \/ UNCHANGED <<phase, callAge, copyOf>>
  BY DEF Next, vars, Flap, Expire, AnswerFromMemory, SendRead, ReadStep, DbReads,
         AnswerFromDb, ReadFails, poller
<1> QED
  BY <1>1, <1>2, <1>3, <1>4, <1>5, <1>6

\* Nothing is kept initially.
LEMMA AgeInit == Init => AgeInv
<1> SUFFICES ASSUME Init PROVE AgeInv
  OBVIOUS
<1>1. RunAges /\ DocAges /\ ReadAges
  BY DEF Init, RunAges, DocAges, ReadAges
<1>2. AgeBounded
  BY DEF Init, AgeBounded
<1> QED
  BY <1>1, <1>2, TypeInit DEF AgeInv

\* A tick makes the copies older, and the places they are kept at.
LEMMA AgeTick == ASSUME AgeInv, Tick PROVE DocAges' /\ ReadAges' /\ AgeBounded'
<1>0. Runs /\ Reads /\ Rest
  BY Parts DEF AgeInv
<1>1. DocAges'
  <2>1. doc \in Copy /\ doc \in Int /\ stamp \in Age /\ stamp \in Nat
    BY <1>0 DEF Rest, Copy, Age, None
  <2> SUFFICES ASSUME doc' # None
      PROVE  doc' <= FetchTimeout + stamp' /\ stamp' <= DocTTL + DocSlack
    BY DEF DocAges
  <2>2. doc # None /\ doc' = Older(doc) /\ stamp' = Older(stamp) /\ stamp < DocTTL + DocSlack
    BY <2>1, OlderFacts DEF Tick, InTime
  <2>3. doc <= FetchTimeout + stamp
    BY <2>2 DEF AgeInv, DocAges
  <2> QED
    BY <2>1, <2>2, <2>3 DEF Older, Age, Copy, None
<1>2. ReadAges'
  <2>1. ASSUME NEW q \in Request, request'[q] = "read", readData'[q] # None
        PROVE  readData'[q] <= DocMost + readAge'[q]
    <3>1. readData[q] \in Copy /\ readData[q] \in Int /\ readAge[q] \in Nat /\ DocMost \in Nat
      BY <1>0 DEF Reads, Copy, Age, None, DocMost
    <3>2. readData'[q] = Older(readData[q]) /\ request[q] = "read" /\ readAge'[q] = readAge[q] + 1
      BY <2>1 DEF Tick
    <3>3. readData[q] # None /\ readData'[q] <= readData[q] + 1 /\ readData'[q] \in Int
      BY <2>1, <3>1, <3>2, OlderFacts DEF Copy, Age, None
    <3> QED
      BY <3>1, <3>2, <3>3 DEF AgeInv, ReadAges
  <2>2. ASSUME memLeft' > 0, mem' # None
        PROVE  mem' <= DocMost + ReadTime + (MemTTL - memLeft')
    <3>1. mem \in Copy /\ mem \in Int /\ memLeft \in 0 .. MemTTL /\ DocMost \in Nat
      BY <1>0 DEF Reads, Copy, Age, None, DocMost
    <3>2. memLeft > 0 /\ memLeft' = memLeft - 1 /\ mem' = Older(mem)
      BY <2>2, <3>1, LessFacts DEF Tick
    <3>3. mem # None /\ mem' <= mem + 1 /\ mem' \in Int
      BY <2>2, <3>1, <3>2, OlderFacts DEF Copy, Age, None
    <3> QED
      BY <3>1, <3>2, <3>3 DEF AgeInv, ReadAges
  <2> QED
    BY <2>1, <2>2 DEF ReadAges
<1>3. AgeBounded'
  BY DEF Tick, AgeBounded
<1> QED
  BY <1>1, <1>2, <1>3

\* The steps of a run.
LEMMA AgeRun ==
    ASSUME WriteInTime, AgeInv, NEW r \in Run, RunStep(r) PROVE DocAges'
<1>1. CASE WriteLands(r)
  <2>1. phase[r] = "writing" /\ doc' = copyOf[r] /\ stamp' = callAge[r]
    BY <1>1 DEF WriteLands
  <2>2. callAge[r] \in 0 .. WriteTime /\ copyOf[r] \in Int
    BY <2>1, Parts DEF AgeInv, Runs, Copy, Age, None
  <2> QED
    BY <2>1, <2>2 DEF WriteInTime, DocAges, AgeInv, RunAges
<1>2. CASE ~WriteLands(r)
  BY <1>2 DEF RunStep, UpstreamReads, Transform, FetchFails, WriteFails, cache, AgeInv, DocAges
<1> QED
  BY <1>1, <1>2

\* The steps of a request.
LEMMA AgeRead ==
    ASSUME AgeInv, NEW q \in Request, AnswerFromMemory(q) \/ SendRead(q) \/ ReadStep(q)
    PROVE  ReadAges' /\ AgeBounded'
<1>0. Reads /\ Rest
  BY Parts DEF AgeInv
<1>1. /\ readData[q] \in Int /\ readAge[q] \in 0 .. ReadTime /\ doc \in Int /\ stamp \in Nat
      /\ mem \in Int /\ memLeft \in 0 .. MemTTL
      /\ DocMost \in Nat /\ DocMost = FetchTimeout + DocTTL + DocSlack
  BY <1>0 DEF Reads, Rest, Copy, Age, None, DocMost
<1>2. CASE AnswerFromMemory(q)
  <2>1. memLeft > 0 /\ answer' = mem /\ UNCHANGED <<mem, memLeft, request, readAge, readData>>
    BY <1>2 DEF AnswerFromMemory, MemValid, Answers
  <2> QED
    BY <1>1, <2>1 DEF AgeInv, ReadAges, AgeBounded
<1>3. CASE SendRead(q)
  <2>1. /\ request' = [request EXCEPT ![q] = "reading"] /\ readAge' = [readAge EXCEPT ![q] = 0]
        /\ UNCHANGED <<mem, memLeft, readData>> /\ answer' = None
    BY <1>3 DEF SendRead
  <2>2. request'[q] = "reading"
        /\ \A p \in Request \ {q} : request'[p] = request[p] /\ readAge'[p] = readAge[p]
    BY <1>0, <2>1 DEF Reads
  <2> QED
    BY <2>1, <2>2 DEF AgeInv, ReadAges, AgeBounded
<1>4. CASE DbReads(q)
  <2>1. /\ request' = [request EXCEPT ![q] = "read"] /\ readData' = [readData EXCEPT ![q] = doc]
        /\ UNCHANGED <<mem, memLeft, readAge>> /\ answer' = None
    BY <1>4 DEF DbReads
  <2>2. readData'[q] = doc
        /\ \A p \in Request \ {q} : request'[p] = request[p] /\ readData'[p] = readData[p]
    BY <1>0, <2>1 DEF Reads
  <2>3. doc # None => doc <= DocMost
    BY <1>1 DEF AgeInv, DocAges
  <2> QED
    BY <1>1, <2>1, <2>2, <2>3 DEF AgeInv, ReadAges, AgeBounded
<1>5. ASSUME Forget(q)
      PROVE  /\ request'[q] = "idle"
             /\ \A p \in Request \ {q} : request'[p] = request[p] /\ readAge'[p] = readAge[p]
                                         /\ readData'[p] = readData[p]
  BY <1>0, <1>5 DEF Forget, Reads
<1>6. CASE AnswerFromDb(q)
  <2>1. /\ request[q] = "read" /\ mem' = readData[q] /\ memLeft' = MemTTL
        /\ answer' = readData[q] /\ Forget(q)
    BY <1>6 DEF AnswerFromDb, Answers
  <2>2. readData[q] # None => readData[q] <= DocMost + readAge[q]
    BY <2>1 DEF AgeInv, ReadAges
  <2> QED
    BY <1>1, <1>5, <2>1, <2>2 DEF AgeInv, ReadAges, AgeBounded
<1>7. CASE ReadFails(q)
  BY <1>5, <1>7 DEF ReadFails, AgeInv, ReadAges, AgeBounded
<1> QED
  BY <1>2, <1>3, <1>4, <1>6, <1>7 DEF ReadStep

\* Every step keeps the ages.
LEMMA AgeStep == ASSUME WriteInTime, AgeInv, [Next]_vars PROVE AgeInv'
<1>1. TypeOK'
  BY TypeStep DEF AgeInv
<1> SUFFICES DocAges' /\ ReadAges' /\ AgeBounded'
  BY <1>1, RunAgesStep DEF AgeInv
<1>2. CASE Flap
  BY <1>2 DEF Flap, cache, replica, AgeInv, DocAges, ReadAges, AgeBounded
<1>3. CASE Tick
  BY <1>3, AgeTick
<1>4. CASE Expire
  BY <1>4 DEF Expire, replica, AgeInv, DocAges, ReadAges, AgeBounded
<1>5. CASE StartAll \/ Fire \/ Stop
  <2>1. UNCHANGED <<doc, stamp, mem, memLeft, request, readAge, readData>> /\ answer' = None
    BY <1>5 DEF StartAll, Fire, Stop, cache, replica
  <2> QED
    BY <2>1 DEF AgeInv, DocAges, ReadAges, AgeBounded
<1>6. ASSUME NEW r \in Run, RunStep(r)
      PROVE  DocAges' /\ ReadAges' /\ AgeBounded'
  <2>1. UNCHANGED <<mem, memLeft, request, readAge, readData>> /\ answer' = None
    BY <1>6 DEF RunStep, UpstreamReads, Transform, FetchFails, WriteLands, WriteFails, Ends, replica
  <2> QED
    BY <1>6, <2>1, AgeRun DEF AgeInv, ReadAges, AgeBounded
<1>7. ASSUME NEW q \in Request, AnswerFromMemory(q) \/ SendRead(q) \/ ReadStep(q)
      PROVE  DocAges' /\ ReadAges' /\ AgeBounded'
  <2>1. UNCHANGED <<doc, stamp>>
    BY <1>7 DEF AnswerFromMemory, SendRead, ReadStep, DbReads, AnswerFromDb, ReadFails, cache
  <2> QED
    BY <1>7, <2>1, AgeRead DEF AgeInv, DocAges
<1>8. CASE UNCHANGED vars
  BY <1>8 DEF vars, AgeInv, DocAges, ReadAges, AgeBounded
<1> QED
  BY <1>2, <1>3, <1>4, <1>5, <1>6, <1>7, <1>8 DEF Next

\* Whatever runs overlap, whatever is late or lost, no position is shown that
\* was read longer ago than the timeout, the lifetimes and a read add up to.
THEOREM AgesBounded == WriteInTime => (Spec => []AgeBounded)
<1> SUFFICES ASSUME WriteInTime PROVE Spec => []AgeBounded
  OBVIOUS
<1>1. AgeInv /\ [Next]_vars => AgeInv'
  BY AgeStep
<1>2. AgeInv => AgeBounded
  BY DEF AgeInv
<1> QED
  BY <1>1, <1>2, AgeInit, PTL DEF Spec

-----------------------------------------------------------------------------
(* How far answers may go back in time *)

\* x is older than y by a fetch and a write at most.
Near(x, y) == x # None /\ y # None => x <= y + FetchTimeout + WriteTime

\* The document is near to all that has come from it.  What a request has read,
\* and the memory entry, are near to what had been answered before the read was
\* sent; since then a newer document may have been read and answered.
BackInv ==
    /\ \A j, k \in 0 .. Lag : j <= k => past[j] <= past[k]
    /\ Near(doc, past[0]) /\ Near(doc, mem)
    /\ \A q \in Request : request[q] = "read" =>
          /\ Near(doc, readData[q])
          /\ \A k \in 0 .. Lag : k > readAge[q] => Near(readData[q], past[k])
    /\ \A k \in 0 .. Lag : k > Lag - memLeft => Near(mem, past[k])

BackAll == TypeOK /\ RunAges /\ BackInv /\ BackwardsBounded

\* Copies that grow older stay in their order, and near to each other.
LEMMA OlderOrder ==
    ASSUME NEW x \in Copy, NEW y \in Copy
    PROVE  /\ Near(x, y) => Near(Older(x), Older(y))
           /\ x \in Age /\ y \in Age /\ x <= y => Older(x) <= Older(y)
BY DEF Near, Older, Copy, Age, None

\* What the parts of the state are.
LEMMA BackTypes ==
    ASSUME TypeOK
    PROVE  /\ doc \in Copy /\ mem \in Copy /\ memLeft \in 0 .. MemTTL
           /\ \A q \in Request : readData[q] \in Copy /\ readAge[q] \in 0 .. ReadTime
           /\ \A k \in 0 .. Lag : past[k] \in Age /\ past[k] \in Copy /\ past[k] # None
           /\ \A x \in Copy : x \in Int
           /\ 0 \in 0 .. Lag /\ Lag \in 0 .. Lag /\ Lag = ReadTime + MemTTL
BY Parts, CopyFacts DEF Reads, Rest, Copy, Age, None, Lag

\* A tick.
LEMMA BackTick == ASSUME TypeOK, BackInv, Tick PROVE BackInv'
<1>0. /\ doc' = Older(doc) /\ mem' = Older(mem) /\ memLeft' = Less(memLeft)
      /\ request' = request
      /\ \A q \in Request : readData'[q] = Older(readData[q])
      /\ \A q \in Request : request[q] # "idle" => readAge'[q] = readAge[q] + 1
      /\ \A k \in 0 .. Lag : past'[k] = Older(past[Less(k)])
  BY DEF Tick
<1>1. \A k \in 0 .. Lag : Less(k) \in 0 .. Lag /\ (k > 0 => Less(k) = k - 1)
  BY BackTypes DEF Less
<1>2. \A j, k \in 0 .. Lag : j <= k => Less(j) <= Less(k)
  BY BackTypes DEF Less
<1>3. Less(0) = 0
  BY DEF Less
<1>4. \A j, k \in 0 .. Lag : j <= k => past'[j] <= past'[k]
  <2> SUFFICES ASSUME NEW j \in 0 .. Lag, NEW k \in 0 .. Lag, j <= k
      PROVE past'[j] <= past'[k]
    OBVIOUS
  <2>1. past[Less(j)] <= past[Less(k)] /\ past[Less(j)] \in Age /\ past[Less(k)] \in Age
        /\ past[Less(j)] \in Copy /\ past[Less(k)] \in Copy
    BY <1>1, <1>2, BackTypes DEF BackInv
  <2> QED
    BY <1>0, <2>1, OlderOrder
<1>5. Near(doc', past'[0]) /\ Near(doc', mem')
  BY <1>0, <1>3, BackTypes, OlderOrder DEF BackInv
<1>6. ASSUME NEW q \in Request, request'[q] = "read"
      PROVE  /\ Near(doc', readData'[q])
             /\ \A k \in 0 .. Lag : k > readAge'[q] => Near(readData'[q], past'[k])
  <2>1. request[q] = "read" /\ readAge'[q] = readAge[q] + 1 /\ readAge[q] \in Nat
    BY <1>0, <1>6, BackTypes
  <2>2. Near(doc', readData'[q])
    BY <1>0, <2>1, BackTypes, OlderOrder DEF BackInv
  <2>3. ASSUME NEW k \in 0 .. Lag, k > readAge'[q] PROVE Near(readData'[q], past'[k])
    <3>1. Less(k) \in 0 .. Lag /\ Less(k) > readAge[q]
      BY <1>1, <2>1, <2>3
    <3>2. Near(readData[q], past[Less(k)])
      BY <2>1, <3>1 DEF BackInv
    <3> QED
      BY <1>0, <3>1, <3>2, BackTypes, OlderOrder
  <2> QED
    BY <2>2, <2>3
<1>7. ASSUME NEW k \in 0 .. Lag, k > Lag - memLeft' PROVE Near(mem', past'[k])
  <2>1. memLeft > 0 /\ memLeft' = memLeft - 1 /\ memLeft \in Nat
    BY <1>0, <1>7, BackTypes DEF Less
  <2>2. Less(k) \in 0 .. Lag /\ Less(k) > Lag - memLeft
    BY <1>1, <1>7, <2>1, BackTypes
  <2>3. Near(mem, past[Less(k)])
    BY <2>2 DEF BackInv
  <2> QED
    BY <1>0, <2>2, <2>3, BackTypes, OlderOrder
<1> QED
  BY <1>4, <1>5, <1>6, <1>7 DEF BackInv, Near

\* A write that lands is near to everything.
LEMMA BackRun == ASSUME TypeOK, RunAges, BackInv, NEW r \in Run, RunStep(r) PROVE BackInv'
<1>1. UNCHANGED <<mem, memLeft, request, readAge, readData, past>>
  BY DEF RunStep, UpstreamReads, Transform, FetchFails, WriteLands, WriteFails, replica
<1>2. CASE WriteLands(r)
  <2>1. phase[r] = "writing" /\ doc' = copyOf[r]
    BY <1>2 DEF WriteLands
  <2>2. callAge[r] \in 0 .. WriteTime /\ copyOf[r] \in Int
        /\ copyOf[r] <= FetchTimeout + callAge[r]
    BY <2>1, Parts DEF Runs, RunAges, Copy, Age, None
  <2>3. doc' <= FetchTimeout + WriteTime /\ doc' \in Int
    BY <2>1, <2>2
  <2>4. \A y \in Copy : Near(doc', y)
    BY <2>3 DEF Near, Copy, Age, None
  <2> QED
    BY <1>1, <2>4, BackTypes DEF BackInv, Near
<1>3. CASE ~WriteLands(r)
  <2>1. doc' = doc
    BY <1>3 DEF RunStep, UpstreamReads, Transform, FetchFails, WriteFails, cache
  <2> QED
    BY <1>1, <2>1 DEF BackInv, Near
<1> QED
  BY <1>2, <1>3

\* The steps of a request.
LEMMA BackRead ==
    ASSUME TypeOK, BackInv,
           NEW q \in Request, AnswerFromMemory(q) \/ SendRead(q) \/ ReadStep(q)
    PROVE  BackInv' /\ BackwardsBounded'
<1>0. Reads /\ doc' = doc
  BY Parts DEF AnswerFromMemory, SendRead, ReadStep, DbReads, AnswerFromDb, ReadFails, cache
<1>1. ASSUME NEW x \in Copy, Answers(x), Near(x, past[Lag]), Near(doc, x)
      PROVE  /\ BackwardsBounded'
             /\ \A k \in 0 .. Lag : k > 0 => past'[k] = past[k]
             /\ \A j, k \in 0 .. Lag : j <= k => past'[j] <= past'[k]
             /\ Near(doc, past'[0])
  <2>1. /\ answer' = x
        /\ past' = IF x # None /\ x < past[0] THEN [past EXCEPT ![0] = x] ELSE past
    BY <1>1 DEF Answers
  <2>2. \A k \in 0 .. Lag : past'[k] = IF k = 0 /\ x # None /\ x < past[0] THEN x ELSE past[k]
    BY <1>0, <2>1, BackTypes DEF Reads
  <2>3. past'[Lag] = past[Lag]
    BY <2>2, BackTypes, CopyFacts
  <2>4. BackwardsBounded'
    BY <1>1, <2>1, <2>3, BackTypes DEF BackwardsBounded, Near
  <2>5. \A j, k \in 0 .. Lag : j <= k => past'[j] <= past'[k]
    <3> SUFFICES ASSUME NEW j \in 0 .. Lag, NEW k \in 0 .. Lag, j <= k
        PROVE past'[j] <= past'[k]
      OBVIOUS
    <3>1. past[j] <= past[k] /\ past[0] <= past[k] /\ x \in Int
          /\ past[j] \in Int /\ past[k] \in Int /\ past[0] \in Int
      BY BackTypes DEF BackInv
    <3>2. k = 0 => j = 0
      OBVIOUS
    <3> QED
      BY <2>2, <3>1, <3>2
  <2>6. past'[0] = past[0] \/ past'[0] = x
    BY <2>2, BackTypes
  <2> QED
    BY <1>1, <2>2, <2>4, <2>5, <2>6 DEF BackInv
<1>2. ASSUME Forget(q)
      PROVE  /\ request'[q] = "idle"
             /\ \A p \in Request \ {q} : request'[p] = request[p] /\ readAge'[p] = readAge[p]
                                         /\ readData'[p] = readData[p]
  BY <1>0, <1>2 DEF Forget, Reads
<1>3. \A k \in 0 .. Lag : k > Lag - memLeft => k > 0
  BY BackTypes
<1>4. \A p \in Request : \A k \in 0 .. Lag : k > readAge[p] => k > 0
  BY BackTypes
<1>5. CASE AnswerFromMemory(q)
  <2>1. /\ UNCHANGED <<mem, memLeft, request, readAge, readData>> /\ memLeft > 0 /\ Answers(mem)
    BY <1>5 DEF AnswerFromMemory, MemValid
  <2>2. Near(mem, past[Lag]) /\ Near(doc, mem) /\ mem \in Copy
    BY <2>1, BackTypes DEF BackInv
  <2>3. /\ BackwardsBounded'
        /\ \A k \in 0 .. Lag : k > 0 => past'[k] = past[k]
        /\ \A j, k \in 0 .. Lag : j <= k => past'[j] <= past'[k]
        /\ Near(doc, past'[0])
    BY <1>1, <2>1, <2>2
  <2> QED
    BY <1>0, <1>3, <1>4, <2>1, <2>3 DEF BackInv, Near
<1>6. CASE SendRead(q)
  <2>1. UNCHANGED <<mem, memLeft, past, readData>> /\ answer' = None /\ request'[q] = "reading"
        /\ \A p \in Request \ {q} : request'[p] = request[p] /\ readAge'[p] = readAge[p]
    BY <1>0, <1>6 DEF SendRead, Reads
  <2> QED
    BY <1>0, <2>1 DEF BackInv, Near, BackwardsBounded
<1>7. CASE DbReads(q)
  <2>1. UNCHANGED <<mem, memLeft, past, readAge>> /\ answer' = None /\ readData'[q] = doc
        /\ \A p \in Request \ {q} : request'[p] = request[p] /\ readData'[p] = readData[p]
    BY <1>0, <1>7 DEF DbReads, Reads
  <2>2. Near(doc, doc)
    BY BackTypes DEF Near, Copy, Age, None
  <2>3. \A k \in 0 .. Lag : Near(doc, past[k])
    <3> SUFFICES ASSUME NEW k \in 0 .. Lag PROVE Near(doc, past[k])
      OBVIOUS
    <3>1. past[0] <= past[k] /\ past[0] \in Int /\ past[k] \in Int /\ doc \in Int
          /\ past[0] # None /\ Near(doc, past[0])
      BY BackTypes DEF BackInv
    <3> QED
      BY <3>1 DEF Near
  <2> QED
    BY <1>0, <2>1, <2>2, <2>3 DEF BackInv, Near, BackwardsBounded
<1>8. CASE AnswerFromDb(q)
  <2>1. /\ request[q] = "read" /\ mem' = readData[q] /\ memLeft' = MemTTL
        /\ Answers(readData[q]) /\ Forget(q)
    BY <1>8 DEF AnswerFromDb
  <2>2. Near(doc, readData[q]) /\ readData[q] \in Copy /\ readAge[q] \in 0 .. ReadTime
        /\ \A k \in 0 .. Lag : k > readAge[q] => Near(readData[q], past[k])
    BY <2>1, BackTypes DEF BackInv
  <2>3. Near(readData[q], past[Lag])
    BY <2>2, BackTypes, CopyFacts
  <2>4. /\ BackwardsBounded'
        /\ \A k \in 0 .. Lag : k > 0 => past'[k] = past[k]
        /\ \A j, k \in 0 .. Lag : j <= k => past'[j] <= past'[k]
        /\ Near(doc, past'[0])
    BY <1>1, <2>1, <2>2, <2>3
  <2>5. \A k \in 0 .. Lag : k > Lag - memLeft' => k > readAge[q] /\ k > 0
    BY <2>1, <2>2, BackTypes
  <2>6. \A k \in 0 .. Lag : k > Lag - memLeft' => Near(readData[q], past'[k])
    BY <2>2, <2>4, <2>5
  <2>7. \A p \in Request : request'[p] = "read" =>
           /\ request[p] = "read" /\ readAge'[p] = readAge[p] /\ readData'[p] = readData[p]
    BY <1>2, <2>1
  <2> QED
    BY <1>0, <1>4, <2>1, <2>2, <2>4, <2>6, <2>7 DEF BackInv, Near
<1>9. CASE ReadFails(q)
  <2>1. UNCHANGED <<mem, memLeft, past>> /\ answer' = None /\ Forget(q)
    BY <1>9 DEF ReadFails
  <2> QED
    BY <1>0, <1>2, <2>1 DEF BackInv, Near, BackwardsBounded
<1> QED
  BY <1>5, <1>6, <1>7, <1>8, <1>9 DEF ReadStep

\* Every step keeps what has been read near to what has been answered.
LEMMA BackStep == ASSUME BackAll, [Next]_vars PROVE BackAll'
<1>0. TypeOK /\ RunAges /\ BackInv /\ BackwardsBounded
  BY DEF BackAll
<1> SUFFICES BackInv' /\ BackwardsBounded'
  BY <1>0, TypeStep, RunAgesStep DEF BackAll
<1>1. ASSUME answer' = None PROVE BackwardsBounded'
  BY <1>1 DEF BackwardsBounded
<1>2. CASE Tick
  BY <1>0, <1>1, <1>2, BackTick DEF Tick
<1>3. CASE Flap \/ StartAll \/ Fire \/ Stop
  <2>1. UNCHANGED <<doc, mem, memLeft, request, readAge, readData, past>> /\ answer' = None
    BY <1>3 DEF Flap, StartAll, Fire, Stop, cache, replica
  <2> QED
    BY <1>0, <1>1, <2>1 DEF BackInv, Near
<1>4. CASE Expire
  <2>1. UNCHANGED <<mem, memLeft, request, readAge, readData, past>> /\ answer' = None /\ doc' = None
    BY <1>4 DEF Expire, replica
  <2> QED
    BY <1>0, <1>1, <2>1 DEF BackInv, Near
<1>5. ASSUME NEW r \in Run, RunStep(r) PROVE BackInv' /\ BackwardsBounded'
  <2>1. answer' = None
    BY <1>5 DEF RunStep, UpstreamReads, Transform, FetchFails, WriteLands, WriteFails, Ends
  <2> QED
    BY <1>0, <1>1, <1>5, <2>1, BackRun
<1>6. ASSUME NEW q \in Request, AnswerFromMemory(q) \/ SendRead(q) \/ ReadStep(q)
      PROVE  BackInv' /\ BackwardsBounded'
  BY <1>0, <1>6, BackRead
<1>7. CASE UNCHANGED vars
  BY <1>0, <1>7 DEF vars, BackInv, Near, BackwardsBounded
<1> QED
  BY <1>2, <1>3, <1>4, <1>5, <1>6, <1>7 DEF Next

\* However runs, writes and reads overlap: a replica never goes back behind what
\* it had answered before the reads and the memory entry it still holds by more
\* than the time of one fetch and its write.
THEOREM StepsBackBounded == Spec => []BackwardsBounded
<1>1. Init => BackAll
  <2> SUFFICES ASSUME Init PROVE BackAll
    OBVIOUS
  <2>1. BackInv
    BY CopyFacts DEF Init, BackInv, Near
  <2>2. RunAges /\ BackwardsBounded
    BY DEF Init, RunAges, BackwardsBounded
  <2> QED
    BY <2>1, <2>2, TypeInit DEF BackAll
<1>2. BackAll /\ [Next]_vars => BackAll'
  BY BackStep
<1>3. BackAll => BackwardsBounded
  BY DEF BackAll
<1> QED
  BY <1>1, <1>2, <1>3, PTL DEF Spec
=============================================================================

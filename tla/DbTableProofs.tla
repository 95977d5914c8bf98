--------------------------- MODULE DbTableProofs ----------------------------
(***************************************************************************)
(* A table for any number of threads, rows, logs and frames: the chains    *)
(* are sound, a load that walks one ends on what the table holds for its   *)
(* frame, and files and links implement LogTable.                          *)
(*                                                                         *)
(* A chain is reasoned about as the sequence its links spell (Spelled),    *)
(* which is what the walk of Chain meets (PathMet).  A call then appends   *)
(* one log to a sequence, empties one, or takes the first logs off all.    *)
(***************************************************************************)
EXTENDS DbTable, FiniteSetTheorems, SequenceTheorems, WellFoundedInduction, TLAPS

LogOrNone == LogIds \union {NONE}
Masters == [firstLog : LogOrNone, lastLog : LogOrNone, lastCreatedFrame : 0 .. MaxFrame, data : Values]
Entries == [frame : 0 .. MaxFrame, data : Values \union {Deleted}, previousLog : LogOrNone, nextLog : LogOrNone]

chain == [r \in RowIds |-> Chain(r)]

(* The links of g spell s from first on.                                   *)
Spelled(first, g, s) ==
  /\ s \in Seq(LogIds) /\ IsInjective(s)
  /\ first = IF s = <<>> THEN NONE ELSE s[1]
  /\ \A k \in DOMAIN s : g[s[k]].nextLog = IF k = Len(s) THEN NONE ELSE s[k + 1]

(* Its logs are in use, are linked backwards as well, are stamped in their *)
(* order, and a delete log can only be the last.                           *)
InOrder(g, s, inUse, now) ==
  \A k \in DOMAIN s :
    /\ s[k] \in inUse
    /\ g[s[k]].previousLog = IF k = 1 THEN NONE ELSE s[k - 1]
    /\ g[s[k]].frame \in 1 .. now
    /\ k > 1 => g[s[k - 1]].frame <= g[s[k]].frame
    /\ k < Len(s) => g[s[k]].data # Deleted

LastOf(s) == IF s = <<>> THEN NONE ELSE s[Len(s)]

-----------------------------------------------------------------------------
(* No log is on the chains of two rows.                                    *)
Chained ==
  /\ \A r \in RowIds : Spelled(master[r].firstLog, logs, chain[r]) /\ InOrder(logs, chain[r], logRows, currentFrame)
  /\ \A r, q \in RowIds : r # q => ToSet(chain[r]) \intersect ToSet(chain[q]) = {}

(* A row that is listed, and neither new nor about to go, has no delete    *)
(* log.  lastLog is the last of the chain, but while a log is linked.      *)
Ends ==
  \A r \in RowIds :
    /\ (\A t \in Threads : at[t] = r => pc[t] # "finish") => master[r].lastLog = LastOf(chain[r])
    /\ r \in rows /\ chain[r] # <<>> /\ (\A t \in Threads : at[t] = r => pc[t] \notin {"reset", "finish", "unlist"})
         => logs[LastOf(chain[r])].data # Deleted

(* One call at a time writes a row, and the row is listed.                 *)
OneWriter ==
  \A t \in Threads : pc[t] \in Writing =>
    /\ at[t] \in RowIds /\ at[t] \in rows
    /\ \A u \in Threads : pc[u] \in Writing /\ at[u] = at[t] => u = t

(* What a writer has in hand.  A log that is to be linked is on no chain   *)
(* and nothing leads to it.                                                *)
InHand ==
  \A t \in Threads :
    /\ pc[t] = "reset" => arg[t] \in Values
    /\ pc[t] \in {"append", "link", "finish"} => arg[t] \in Values \union {Deleted}
    /\ pc[t] = "link" =>
         /\ tl[t] \in logRows
         /\ logs[tl[t]] = [frame |-> currentFrame, data |-> arg[t],
                           previousLog |-> LastOf(chain[at[t]]), nextLog |-> NONE]
         /\ \A r \in RowIds : tl[t] \notin ToSet(chain[r])
         /\ \A l \in logRows : logs[l].nextLog # tl[t]
         /\ \A u \in Threads : pc[u] = "link" /\ tl[u] = tl[t] => u = t
    /\ pc[t] = "finish" =>
         chain[at[t]] # <<>> /\ LastOf(chain[at[t]]) = tl[t] /\ logs[tl[t]].data = arg[t]
    /\ pc[t] = "unlist" =>
         chain[at[t]] # <<>> /\ logs[LastOf(chain[at[t]])].data = Deleted

(* What is linked to stays allocated, and no log that a row has forgotten  *)
(* leads into a chain.                                                     *)
Closed ==
  \A l \in logRows : logs[l].nextLog # NONE =>
    /\ logs[l].nextLog \in logRows
    /\ \A r \in RowIds : logs[l].nextLog \in ToSet(chain[r]) => l \in ToSet(chain[r])

(* A reader stands on a log that is linked or forgotten; if it is still on *)
(* the row's chain, the logs up to it are not of a later frame.            *)
Readers ==
  \A t \in Threads : pc[t] = "walk" =>
    /\ at[t] \in RowIds /\ tl[t] \in logRows /\ arg[t] \in Nat
    /\ \A u \in Threads : pc[u] = "link" => tl[u] # tl[t]
    /\ \A p \in DOMAIN chain[at[t]] : chain[at[t]][p] = tl[t] =>
         \A j \in 2 .. p : logs[chain[at[t]][j]].frame <= arg[t]

Inv == TypeOK /\ Chained /\ Ends /\ OneWriter /\ InHand /\ Closed /\ Readers

-----------------------------------------------------------------------------
(* No more logs fit in a sequence than there are.                          *)
LEMMA Fits ==
  ASSUME NEW s \in Seq(LogIds), IsInjective(s)
  PROVE  Len(s) \in 0 .. LogCount
<1>1. LogCount \in Nat /\ Len(s) \in Nat /\ DOMAIN s = 1 .. Len(s)
  BY DbTableAssumption
<1>2. s \in Injection(1 .. Len(s), LogIds)
  BY <1>1 DEF Injection, IsInjective
<1>3. IsFiniteSet(LogIds) /\ Cardinality(LogIds) = LogCount
  <2>1. 1 \in Int /\ LogCount \in Int
    BY <1>1
  <2>2. IsFiniteSet(1 .. LogCount) /\ Cardinality(1 .. LogCount) = (IF 1 > LogCount THEN 0 ELSE LogCount - 1 + 1)
    BY <2>1, FS_Interval
  <2>3. QED
    BY <1>1, <2>2 DEF LogIds
<1>4. Cardinality(1 .. Len(s)) = Len(s)
  <2>1. 1 \in Int /\ Len(s) \in Int
    BY <1>1
  <2>2. Cardinality(1 .. Len(s)) = (IF 1 > Len(s) THEN 0 ELSE Len(s) - 1 + 1)
    BY <2>1, FS_Interval
  <2>3. QED
    BY <1>1, <2>2
<1>5. Cardinality(1 .. Len(s)) <= Cardinality(LogIds)
  BY <1>2, <1>3, FS_Injection
<1>6. QED
  BY <1>1, <1>3, <1>4, <1>5

(* The walk meets the logs of the sequence that the links spell.           *)
LEMMA PathMet ==
  \A r \in RowIds : \A path \in Seq(LogIds) : Spelled(master[r].firstLog, logs, path) => Chain(r) = path
<1> SUFFICES ASSUME NEW r \in RowIds, NEW s \in Seq(LogIds), Spelled(master[r].firstLog, logs, s)
             PROVE  Chain(r) = s
  OBVIOUS
<1> DEFINE g == [n \in LogIds |-> IF n <= Len(s) THEN s[n] ELSE NONE]
           met == Met(r)
<1>1. LogCount \in Nat /\ Len(s) \in Nat /\ Len(s) <= LogCount /\ NONE \notin LogIds /\ LogIds = 1 .. LogCount
  BY Fits, DbTableAssumption DEF Spelled, LogIds
<1>2. ASSUME NEW n \in LogIds
      PROVE  g[n] = IF n = 1 THEN master[r].firstLog ELSE After[g[n - 1]]
  <2>1. CASE n = 1
    BY <1>1, <2>1 DEF Spelled
  <2>2. CASE n # 1 /\ n - 1 <= Len(s)
    <3>1. n - 1 \in DOMAIN s /\ n - 1 \in LogIds /\ g[n - 1] = s[n - 1] /\ s[n - 1] \in LogIds
      BY <1>1, <2>2
    <3>2. After[s[n - 1]] = logs[s[n - 1]].nextLog
      BY <1>1, <3>1 DEF After
    <3>3. logs[s[n - 1]].nextLog = IF n - 1 = Len(s) THEN NONE ELSE s[n]
      BY <1>1, <3>1 DEF Spelled
    <3>4. QED
      BY <1>1, <2>2, <3>1, <3>2, <3>3
  <2>3. CASE n # 1 /\ ~(n - 1 <= Len(s))
    BY <1>1, <2>3 DEF After
  <2>4. QED
    BY <2>1, <2>2, <2>3
<1>3. met = [n \in LogIds |-> IF n = 1 THEN master[r].firstLog ELSE After[met[n - 1]]]
  <2>1. g = [n \in LogIds |-> IF n = 1 THEN master[r].firstLog ELSE After[g[n - 1]]]
    BY <1>2
  <2>2. \E m : m = [n \in LogIds |-> IF n = 1 THEN master[r].firstLog ELSE After[m[n - 1]]]
    BY <2>1
  <2>3. met = CHOOSE m : m = [n \in LogIds |-> IF n = 1 THEN master[r].firstLog ELSE After[m[n - 1]]]
    BY DEF Met
  <2>4. QED
    BY <2>2, <2>3
<1> HIDE DEF g, met
<1>4. ASSUME NEW n \in LogIds
      PROVE  met[n] = g[n]
  <2> DEFINE Off == {k \in LogIds : met[k] # g[k]}
  <2> SUFFICES ASSUME Off # {}
               PROVE  FALSE
    BY <1>4
  <2>1. Off \subseteq Nat /\ Off # {}
    BY <1>1
  <2>2. PICK k \in Off : \A j \in Off : ~(<<j, k>> \in OpToRel(<, Nat))
    <3> HIDE DEF Off
    <3>1. QED
      BY <2>1, WFMin, NatLessThanWellFounded
  <2>3. \A j \in Off : ~(j < k)
    BY <2>1, <2>2 DEF OpToRel
  <2>4. k # 1
    BY <1>2, <1>3
  <2>5. k - 1 \in LogIds /\ k - 1 \notin Off
    BY <1>1, <2>3, <2>4
  <2>6. QED
    BY <1>2, <1>3, <2>4, <2>5
<1>5. {n \in LogIds : met[n] # NONE} = 1 .. Len(s)
  BY <1>1, <1>4 DEF g
<1>6. Chain(r) = [n \in 1 .. Len(s) |-> s[n]]
  BY <1>1, <1>4, <1>5 DEF g, met, Chain
<1>7. QED
  BY <1>6

(* ... in the next state too.                                              *)
LEMMA Respelled ==
  ASSUME NEW f \in [RowIds -> Seq(LogIds)], \A r \in RowIds : Spelled(master'[r].firstLog, logs', f[r])
  PROVE  chain' = f
<1>1. \A r \in RowIds : \A path \in Seq(LogIds) : Spelled(master'[r].firstLog, logs', path) => Chain(r)' = path
  <2>1. (\A r \in RowIds : \A path \in Seq(LogIds) : Spelled(master[r].firstLog, logs, path) => Chain(r) = path)'
    BY PathMet, PTL
  <2>2. QED
    BY <2>1
<1>2. \A r \in RowIds : Chain(r)' = f[r]
  BY <1>1
<1>3. QED
  BY <1>2 DEF chain

(* Nothing that links are made of has changed.                             *)
LEMMA Unchained ==
  ASSUME master' = master, logs' = logs
  PROVE  chain' = chain
  BY DEF chain, Chain, Met, After

-----------------------------------------------------------------------------
(* An empty table.                                                         *)
LEMMA InitHolds == Init => Inv
<1> SUFFICES ASSUME Init
             PROVE  Inv
  OBVIOUS
<1> USE DbTableAssumption DEF Init
<1>1. PICK d \in Values : master = [r \in RowIds |-> [firstLog |-> NONE, lastLog |-> NONE,
                                                      lastCreatedFrame |-> 0, data |-> d]]
  OBVIOUS
<1>2. \A r \in RowIds : master[r].firstLog = NONE /\ master[r].lastLog = NONE
  BY <1>1
<1>3. \A r \in RowIds : Spelled(master[r].firstLog, logs, <<>>)
  BY <1>2 DEF Spelled, IsInjective
<1>4. chain = [r \in RowIds |-> <<>>]
  <2>1. \A r \in RowIds : Chain(r) = <<>>
    <3> HIDE DEF Init
    <3>1. <<>> \in Seq(LogIds)
      OBVIOUS
    <3>2. QED
      BY <1>3, <3>1, PathMet
  <2>2. QED
    BY <2>1 DEF chain
<1>5. TypeOK
  BY <1>1 DEF TypeOK, Writing
<1>6. Chained
  BY <1>3, <1>4 DEF Chained, InOrder, ToSet
<1>7. Ends
  BY <1>2, <1>4 DEF Ends, LastOf
<1>8. OneWriter /\ InHand /\ Closed /\ Readers
  BY DEF OneWriter, InHand, Closed, Readers, Writing
<1>9. QED
  BY <1>5, <1>6, <1>7, <1>8 DEF Inv

(* A call begins.                                                          *)
LEMMA CallStep ==
  ASSUME Inv, NEW t \in Threads, NEW r \in RowIds,
         (\E d \in Values : Allocate(t, r, d) \/ Store(t, r, d)) \/ Free(t, r)
  PROVE  Inv'
<1> USE DbTableAssumption DEF Inv
<1>1. PICK d \in Values \union {Deleted}, place \in {"reset", "append"} :
        /\ pc[t] = "idle" /\ pc' = [pc EXCEPT ![t] = place] /\ at' = [at EXCEPT ![t] = r] /\ arg' = [arg EXCEPT ![t] = d]
        /\ rows' = rows \union {r} /\ (place = "reset" => d \in Values)
        /\ IF place = "reset" THEN r \notin rows ELSE r \in rows /\ WritersOf(r) = {}
  <2>1. CASE Free(t, r)
    BY <2>1 DEF Free, Call, Goto, disk
  <2>2. CASE \E d \in Values : Store(t, r, d)
    BY <2>2 DEF Store, Call, Goto, disk
  <2>3. CASE \E d \in Values : Allocate(t, r, d)
    BY <2>3 DEF Allocate, Call, Goto
  <2>4. QED
    BY <2>1, <2>2, <2>3
<1>2. /\ master' = master /\ logs' = logs /\ logRows' = logRows /\ currentFrame' = currentFrame
      /\ tl' = tl /\ out' = out
  BY DEF Allocate, Store, Free, disk
<1>3. chain' = chain
  BY <1>2, Unchained
<1>4. /\ \A u \in Threads : pc'[u] = (IF u = t THEN place ELSE pc[u]) /\ at'[u] = (IF u = t THEN r ELSE at[u])
                           /\ arg'[u] = (IF u = t THEN d ELSE arg[u])
  BY <1>1 DEF TypeOK
<1>5. \A u \in Threads : at[u] = r => pc[u] \notin Writing
  BY <1>1 DEF OneWriter, WritersOf
<1>6. TypeOK'
  BY <1>1, <1>2 DEF TypeOK, Writing
<1>7. Chained' /\ Closed'
  BY <1>2, <1>3 DEF Chained, Closed
<1>8. Ends'
  <2>1. ASSUME NEW q \in RowIds, \A u \in Threads : at'[u] = q => pc'[u] # "finish"
        PROVE  master'[q].lastLog = LastOf(chain'[q])
    BY <1>1, <1>2, <1>3, <1>4, <2>1 DEF Ends
  <2>2. ASSUME NEW q \in RowIds, q \in rows', chain'[q] # <<>>,
               \A u \in Threads : at'[u] = q => pc'[u] \notin {"reset", "finish", "unlist"}
        PROVE  logs'[LastOf(chain'[q])].data # Deleted
    <3>1. q \in rows
      BY <1>1, <1>4, <2>2
    <3>2. \A u \in Threads : at[u] = q => pc[u] \notin {"reset", "finish", "unlist"}
      BY <1>1, <1>4, <2>2
    <3>3. QED
      BY <1>2, <1>3, <2>2, <3>1, <3>2 DEF Ends
  <2>3. QED
    BY <2>1, <2>2 DEF Ends
<1>9. OneWriter'
  BY <1>1, <1>4, <1>5 DEF OneWriter, Writing
<1>10. InHand'
  BY <1>1, <1>2, <1>3, <1>4 DEF InHand
<1>11. Readers'
  BY <1>1, <1>2, <1>3, <1>4 DEF Readers
<1>12. QED
  BY <1>6, <1>7, <1>8, <1>9, <1>10, <1>11

(* A load begins, goes on to the next log, or ends: the table stays as it  *)
(* is.                                                                     *)
LEMMA LoadStep ==
  ASSUME Inv, NEW t \in Threads,
         \/ \E r \in RowIds : readCurrent(t, r) \/ readCommitted(t, r)
         \/ Walk(t) \/ LoadReturns(t)
  PROVE  Inv'
<1> USE DbTableAssumption DEF Inv
<1>1. UNCHANGED <<currentFrame, rows, master, logs, logRows>>
  BY DEF readCurrent, readCommitted, Load, Walk, LoadReturns, disk
<1>2. chain' = chain
  BY <1>1, Unchained
<1>3. \A u \in Threads : u # t => pc'[u] = pc[u] /\ at'[u] = at[u] /\ arg'[u] = arg[u] /\ tl'[u] = tl[u]
  BY DEF TypeOK, readCurrent, readCommitted, Load, Walk, LoadReturns, Call, Goto, Return
<1>4. pc[t] \notin Writing /\ pc'[t] \notin Writing
  BY DEF TypeOK, readCurrent, readCommitted, Load, Walk, LoadReturns, Call, Goto, Return, Writing
<1>5. TypeOK' /\ (pc'[t] = "walk" => at'[t] \in RowIds /\ tl'[t] \in logRows /\ arg'[t] \in Nat
        /\ (\A u \in Threads : pc[u] = "link" => tl[u] # tl'[t])
        /\ \A p \in DOMAIN chain[at'[t]] : chain[at'[t]][p] = tl'[t] =>
             \A j \in 2 .. p : logs[chain[at'[t]][j]].frame <= arg'[t])
  <2>1. CASE \E r \in RowIds : readCurrent(t, r) \/ readCommitted(t, r)
    <3>1. PICK r \in RowIds, f \in {currentFrame, currentFrame - 1} : Load(t, r, f)
      BY <2>1 DEF readCurrent, readCommitted
    <3>2. f \in 0 .. MaxFrame
      BY DEF TypeOK
    <3>3. master[r].firstLog \in LogIds \union {NONE} /\ master[r].data \in Values
      BY DEF TypeOK
    <3>4. TypeOK'
      BY <1>1, <3>1, <3>2, <3>3 DEF TypeOK, Load, Call, Goto
    <3>5. CASE master[r].firstLog = NONE
      BY <3>1, <3>4, <3>5 DEF TypeOK, Load, Call, Goto
    <3>6. CASE master[r].firstLog # NONE
      <4>1. at'[t] = r /\ tl'[t] = master[r].firstLog /\ arg'[t] = f
        BY <3>1 DEF TypeOK, Load, Call
      <4>2. chain[r] \in Seq(LogIds) /\ chain[r] # <<>> /\ IsInjective(chain[r]) /\ tl'[t] = chain[r][1]
        BY <3>6, <4>1 DEF Chained, Spelled
      <4>3. 1 \in DOMAIN chain[r]
        BY <4>2
      <4>4. tl'[t] \in logRows /\ tl'[t] \in ToSet(chain[r])
        BY <4>2, <4>3 DEF Chained, InOrder, ToSet
      <4>5. \A u \in Threads : pc[u] = "link" => tl[u] # tl'[t]
        BY <4>4 DEF InHand
      <4>6. \A p \in DOMAIN chain[r] : chain[r][p] = tl'[t] => p = 1
        BY <4>2, <4>3 DEF IsInjective
      <4>7. QED
        BY <3>2, <3>4, <4>1, <4>4, <4>5, <4>6
    <3>7. QED
      BY <3>5, <3>6
  <2>2. CASE Walk(t)
    <3>1. /\ at[t] \in RowIds /\ tl[t] \in logRows /\ arg[t] \in Nat /\ pc[t] = "walk"
          /\ \A p \in DOMAIN chain[at[t]] : chain[at[t]][p] = tl[t] =>
               \A j \in 2 .. p : logs[chain[at[t]][j]].frame <= arg[t]
      BY <2>2 DEF Readers, Walk
    <3>2. tl[t] \in LogIds /\ logs[tl[t]].nextLog \in LogIds \union {NONE} /\ logs[tl[t]].data \in Values \union {Deleted}
      BY <3>1 DEF TypeOK
    <3>3. TypeOK'
      BY <1>1, <2>2, <3>2 DEF TypeOK, Walk, Goto
    <3>4. CASE logs[tl[t]].nextLog # NONE /\ logs[logs[tl[t]].nextLog].frame <= arg[t]
      <4> DEFINE n == logs[tl[t]].nextLog
                 c == chain[at[t]]
      <4>1. at' = at /\ arg' = arg /\ tl'[t] = n
        BY <2>2, <3>4 DEF Walk, TypeOK
      <4>2. n \in logRows /\ (n \in ToSet(c) => tl[t] \in ToSet(c))
        BY <3>1, <3>4 DEF Closed
      <4>3. \A u \in Threads : pc[u] = "link" => tl[u] # n
        BY <3>1 DEF InHand
      <4>4. ASSUME NEW p \in DOMAIN c, c[p] = n, NEW j \in 2 .. p
            PROVE  logs[c[j]].frame <= arg[t]
        <5>1. c \in Seq(LogIds) /\ IsInjective(c) /\ DOMAIN c = 1 .. Len(c) /\ Len(c) \in Nat
              /\ \A k \in DOMAIN c : logs[c[k]].nextLog = IF k = Len(c) THEN NONE ELSE c[k + 1]
          BY <3>1 DEF Chained, Spelled
        <5>2. n \in ToSet(c)
          BY <4>4 DEF ToSet
        <5>3. PICK k \in DOMAIN c : c[k] = tl[t]
          BY <4>2, <5>2 DEF ToSet
        <5>4. k # Len(c) /\ n = c[k + 1] /\ k + 1 \in DOMAIN c
          BY <3>4, <5>1, <5>3
        <5>5. p = k + 1
          BY <4>4, <5>1, <5>4 DEF IsInjective
        <5>6. CASE j = p
          BY <3>4, <4>4, <5>6
        <5>7. CASE j # p
          <6>1. j \in 2 .. k
            BY <5>1, <5>5, <5>7
          <6>2. QED
            BY <3>1, <5>3, <6>1
        <5>8. QED
          BY <5>6, <5>7
      <4>5. QED
        BY <3>1, <3>3, <4>1, <4>2, <4>3, <4>4
    <3>5. CASE ~(logs[tl[t]].nextLog # NONE /\ logs[logs[tl[t]].nextLog].frame <= arg[t])
      BY <2>2, <3>3, <3>5 DEF Walk, Goto, TypeOK
    <3>6. QED
      BY <3>4, <3>5
  <2>3. CASE LoadReturns(t)
    BY <1>1, <2>3 DEF TypeOK, LoadReturns, Return, Goto
  <2>4. QED
    BY <2>1, <2>2, <2>3
<1>6. Chained' /\ Closed'
  BY <1>1, <1>2 DEF Chained, Closed
<1>7. Ends'
  BY <1>1, <1>2, <1>3, <1>4 DEF Ends, Writing
<1>8. OneWriter'
  BY <1>1, <1>3, <1>4 DEF OneWriter
<1>9. InHand'
  BY <1>1, <1>2, <1>3, <1>4 DEF InHand, Writing
<1>10. Readers'
  BY <1>1, <1>2, <1>3, <1>4, <1>5 DEF Readers, Writing
<1>11. QED
  BY <1>5, <1>6, <1>7, <1>8, <1>9, <1>10

(* The chain of a row as a set.                                            *)
LEMMA ChainFacts ==
  ASSUME Inv, NEW r \in RowIds
  PROVE  /\ chain[r] \in Seq(LogIds) /\ IsInjective(chain[r]) /\ Len(chain[r]) \in Nat
         /\ DOMAIN chain[r] = 1 .. Len(chain[r])
         /\ ToSet(chain[r]) \subseteq logRows /\ ToSet(chain[r]) \subseteq LogIds
         /\ \A k \in 1 .. Len(chain[r]) : chain[r][k] \in ToSet(chain[r])
         /\ chain[r] # <<>> => Len(chain[r]) # 0 /\ LastOf(chain[r]) \in ToSet(chain[r])
                              /\ LastOf(chain[r]) = chain[r][Len(chain[r])]
<1>1. chain[r] \in Seq(LogIds) /\ IsInjective(chain[r]) /\ \A k \in DOMAIN chain[r] : chain[r][k] \in logRows
  BY DEF Inv, Chained, Spelled, InOrder
<1>2. Len(chain[r]) \in Nat /\ DOMAIN chain[r] = 1 .. Len(chain[r]) /\ \A k \in 1 .. Len(chain[r]) : chain[r][k] \in LogIds
  BY <1>1
<1>3. chain[r] # <<>> => Len(chain[r]) \in 1 .. Len(chain[r])
  BY <1>1, <1>2
<1>4. QED
  BY <1>1, <1>2, <1>3 DEF ToSet, LastOf

(* A log that is to be linked.                                             *)
LEMMA Linking ==
  ASSUME Inv, NEW u \in Threads, pc[u] = "link"
  PROVE  /\ tl[u] \in logRows /\ tl[u] \in LogIds
         /\ logs[tl[u]] = [frame |-> currentFrame, data |-> arg[u],
                           previousLog |-> LastOf(chain[at[u]]), nextLog |-> NONE]
         /\ \A r \in RowIds : tl[u] \notin ToSet(chain[r])
         /\ \A l \in logRows : logs[l].nextLog # tl[u]
         /\ \A v \in Threads : pc[v] = "link" /\ tl[v] = tl[u] => v = u
<1>1. InHand /\ logRows \subseteq LogIds
  BY DEF Inv, TypeOK
<1>2. QED
  BY <1>1 DEF InHand

(* allocate forgets the logs of the row's last holder.                     *)
LEMMA ResetStep ==
  ASSUME Inv, NEW t \in Threads, Reset(t)
  PROVE  Inv' /\ at[t] \in rows /\ chain' = [chain EXCEPT ![at[t]] = <<>>]
<1> USE DbTableAssumption
<1> DEFINE r == at[t]
<1>1. pc[t] = "reset" /\ r \in RowIds /\ r \in rows /\ arg[t] \in Values
      /\ \A u \in Threads : pc[u] \in Writing /\ at[u] = r => u = t
  BY DEF Reset, Inv, OneWriter, InHand, Writing
<1>2. /\ UNCHANGED <<currentFrame, rows, logs, logRows, at, tl, arg, out>>
      /\ pc' = [pc EXCEPT ![t] = "append"]
  BY DEF Reset, Goto
<1>3. /\ \A q \in RowIds : q # r => master'[q] = master[q]
      /\ master'[r].firstLog = NONE /\ master'[r].lastLog = NONE
      /\ master' \in [RowIds -> Masters]
  <2>1. master \in [RowIds -> Masters] /\ currentFrame \in 0 .. MaxFrame
    BY DEF Inv, TypeOK, Masters, LogOrNone
  <2>2. \A m \in Masters : LET n == [m EXCEPT !.firstLog = NONE, !.lastLog = NONE, !.lastCreatedFrame = currentFrame]
                         IN  n \in Masters /\ n.firstLog = NONE /\ n.lastLog = NONE
    BY <2>1 DEF Masters, LogOrNone
  <2>3. master' = [master EXCEPT ![r] = [master[r] EXCEPT !.firstLog = NONE, !.lastLog = NONE, !.lastCreatedFrame = currentFrame]]
    BY <1>1, <2>1 DEF Reset
  <2>4. QED
    BY <1>1, <2>1, <2>2, <2>3
<1>4. \A u \in Threads : pc'[u] = IF u = t THEN "append" ELSE pc[u]
  BY <1>2 DEF Inv, TypeOK
<1> HIDE DEF r
<1>5. chain' = [chain EXCEPT ![r] = <<>>]
  <2> DEFINE f == [chain EXCEPT ![r] = <<>>]
  <2>1. ASSUME NEW q \in RowIds
        PROVE  f[q] \in Seq(LogIds) /\ Spelled(master'[q].firstLog, logs', f[q])
    <3>1. CASE q = r
      BY <1>3, <3>1 DEF Spelled, IsInjective, chain
    <3>2. CASE q # r
      BY <1>2, <1>3, <3>2 DEF Inv, Chained, Spelled, chain
    <3>3. QED
      BY <3>1, <3>2
  <2>2. f \in [RowIds -> Seq(LogIds)]
    BY <2>1 DEF chain
  <2>3. QED
    BY <2>1, <2>2, Respelled
<1>6. chain'[r] = <<>> /\ \A q \in RowIds : q # r => chain'[q] = chain[q]
  BY <1>1, <1>5 DEF chain
<1>7. TypeOK'
  BY <1>2, <1>3 DEF Inv, TypeOK, Masters, LogOrNone, Writing
<1>8. Chained'
  <2>1. \A q \in RowIds : Spelled(master'[q].firstLog, logs', chain'[q]) /\ InOrder(logs', chain'[q], logRows', currentFrame')
    <3> TAKE q \in RowIds
    <3>1. CASE q = r
      <4>1. chain'[q] = <<>> /\ master'[q].firstLog = NONE /\ <<>> \in Seq(LogIds) /\ DOMAIN <<>> = {}
        BY <1>3, <1>6, <3>1
      <4>2. QED
        BY <4>1 DEF Spelled, InOrder, IsInjective
    <3>2. CASE q # r
      BY <1>2, <1>3, <1>6, <3>2 DEF Inv, Chained
    <3>3. QED
      BY <3>1, <3>2
  <2>2. ToSet(<<>>) = {}
    BY DEF ToSet
  <2>3. \A p, q \in RowIds : p # q => ToSet(chain'[p]) \intersect ToSet(chain'[q]) = {}
    BY <1>6, <2>2 DEF Inv, Chained
  <2>4. QED
    BY <2>1, <2>3 DEF Chained
<1>9. Ends'
  <2>1. ASSUME NEW q \in RowIds
        PROVE  /\ (\A u \in Threads : at'[u] = q => pc'[u] # "finish") => master'[q].lastLog = LastOf(chain'[q])
               /\ q \in rows' /\ chain'[q] # <<>>
                    /\ (\A u \in Threads : at'[u] = q => pc'[u] \notin {"reset", "finish", "unlist"})
                    => logs'[LastOf(chain'[q])].data # Deleted
    <3>1. CASE q = r
      <4>1. LastOf(<<>>) = NONE
        BY DEF LastOf
      <4>2. QED
        BY <1>3, <1>6, <3>1, <4>1
    <3>2. CASE q # r
      <4>1. \A u \in Threads : at[u] = q => pc'[u] = pc[u] /\ at'[u] = at[u]
        BY <1>2, <1>4, <3>2 DEF r
      <4>2. chain'[q] = chain[q] /\ master'[q] = master[q]
        BY <1>3, <1>6, <3>2
      <4>3. QED
        BY <1>2, <4>1, <4>2 DEF Inv, Ends
    <3>3. QED
      BY <3>1, <3>2
  <2>2. QED
    BY <2>1 DEF Ends
<1>10. OneWriter'
  BY <1>1, <1>2, <1>4 DEF Inv, OneWriter, Writing
<1>11. ToSet(chain'[r]) = {}
  BY <1>6 DEF ToSet
<1>12. InHand'
  <2>1. ASSUME NEW u \in Threads
        PROVE  /\ pc'[u] = "reset" => arg'[u] \in Values
               /\ pc'[u] \in {"append", "link", "finish"} => arg'[u] \in Values \union {Deleted}
               /\ pc'[u] = "link" =>
                    /\ tl'[u] \in logRows'
                    /\ logs'[tl'[u]] = [frame |-> currentFrame', data |-> arg'[u],
                                      previousLog |-> LastOf(chain'[at'[u]]), nextLog |-> NONE]
                    /\ \A q \in RowIds : tl'[u] \notin ToSet(chain'[q])
                    /\ \A l \in logRows' : logs'[l].nextLog # tl'[u]
                    /\ \A v \in Threads : pc'[v] = "link" /\ tl'[v] = tl'[u] => v = u
               /\ pc'[u] = "finish" =>
                    chain'[at'[u]] # <<>> /\ LastOf(chain'[at'[u]]) = tl'[u] /\ logs'[tl'[u]].data = arg'[u]
               /\ pc'[u] = "unlist" =>
                    chain'[at'[u]] # <<>> /\ logs'[LastOf(chain'[at'[u]])].data = Deleted
    <3>1. CASE u = t
      BY <1>1, <1>2, <1>4, <3>1
    <3>2. CASE u # t /\ pc[u] \in Writing
      <4>1. at[u] \in RowIds /\ at[u] # r
        BY <1>1, <3>2 DEF Inv, OneWriter
      <4>2. chain'[at[u]] = chain[at[u]] /\ pc'[u] = pc[u]
        BY <1>4, <1>6, <3>2, <4>1
      <4>3. pc[u] = "link" => \A q \in RowIds : tl[u] \notin ToSet(chain'[q])
        BY <1>6, <1>11 DEF Inv, InHand
      <4>4. \A v \in Threads : pc'[v] = "link" => pc[v] = "link"
        BY <1>4
      <4>5. QED
        BY <1>2, <4>2, <4>3, <4>4 DEF Inv, InHand
    <3>3. CASE u # t /\ pc[u] \notin Writing
      BY <1>4, <3>3 DEF Writing
    <3>4. QED
      BY <3>1, <3>2, <3>3
  <2>2. QED
    BY <2>1 DEF InHand
<1>13. Closed'
  BY <1>2, <1>6, <1>11 DEF Inv, Closed
<1>14. Readers'
  <2>1. \A u \in Threads : pc'[u] = "walk" => pc[u] = "walk"
    BY <1>4
  <2>2. \A u \in Threads : pc'[u] = "link" => pc[u] = "link"
    BY <1>4
  <2>3. DOMAIN chain'[r] = {}
    BY <1>6
  <2>4. QED
    BY <1>2, <1>6, <2>1, <2>2, <2>3 DEF Inv, Readers
<1>15. QED
  BY <1>1, <1>5, <1>7, <1>8, <1>9, <1>10, <1>12, <1>13, <1>14 DEF Inv, r

(* A log is filled that nobody can see yet.                                *)
LEMMA AppendStep ==
  ASSUME Inv, NEW t \in Threads, Append0(t)
  PROVE  Inv' /\ chain' = chain /\ UNCHANGED <<currentFrame, rows, master>> /\ \A k \in logRows : logs'[k] = logs[k]
<1> USE DbTableAssumption
<1> DEFINE r == at[t]
<1>1. pc[t] = "append" /\ r \in RowIds /\ r \in rows /\ arg[t] \in Values \union {Deleted}
      /\ \A u \in Threads : pc[u] \in Writing /\ at[u] = r => u = t
  BY DEF Append0, Inv, OneWriter, InHand, Writing
<1>2. master[r].lastLog = LastOf(chain[r]) /\ (chain[r] # <<>> => logs[LastOf(chain[r])].data # Deleted)
  <2>1. \A u \in Threads : at[u] = r => pc[u] \notin {"reset", "finish", "unlist"}
    BY <1>1 DEF Writing
  <2>2. QED
    BY <1>1, <2>1 DEF Inv, Ends
<1>3. ~(master[r].lastLog # NONE /\ logs[master[r].lastLog].data = Deleted)
  BY <1>2 DEF LastOf
<1>4. PICK l \in LogIds \ logRows :
        /\ logRows' = logRows \union {l}
        /\ logs' = [logs EXCEPT ![l] = [frame |-> currentFrame, data |-> arg[t],
                                        previousLog |-> master[r].lastLog, nextLog |-> NONE]]
        /\ tl' = [tl EXCEPT ![t] = l]
        /\ pc' = [pc EXCEPT ![t] = "link"]
        /\ UNCHANGED <<at, arg, out, currentFrame, rows, master>>
  BY <1>3 DEF Append0, Goto
<1> HIDE DEF r
<1>5. /\ \A u \in Threads : pc'[u] = (IF u = t THEN "link" ELSE pc[u]) /\ tl'[u] = (IF u = t THEN l ELSE tl[u])
      /\ logs'[l] = [frame |-> currentFrame, data |-> arg[t], previousLog |-> LastOf(chain[r]), nextLog |-> NONE]
      /\ \A k \in logRows : logs'[k] = logs[k]
  BY <1>2, <1>4 DEF Inv, TypeOK
<1>6. \A q \in RowIds : ToSet(chain[q]) \subseteq logRows /\ l \notin ToSet(chain[q])
  BY ChainFacts
<1>7. ASSUME NEW q \in RowIds, NEW k \in DOMAIN chain[q]
      PROVE  chain[q][k] \in logRows /\ logs'[chain[q][k]] = logs[chain[q][k]]
  BY <1>5, <1>6 DEF ToSet
<1>8. chain' = chain
  <2>1. chain \in [RowIds -> Seq(LogIds)]
    BY ChainFacts DEF chain
  <2>2. \A q \in RowIds : Spelled(master'[q].firstLog, logs', chain[q])
    BY <1>4, <1>7 DEF Inv, Chained, Spelled
  <2>3. QED
    BY <2>1, <2>2, Respelled
<1>9. TypeOK'
  <2>1. [frame |-> currentFrame, data |-> arg[t], previousLog |-> master[r].lastLog, nextLog |-> NONE]
          \in [frame : 0 .. MaxFrame, data : Values \union {Deleted},
              previousLog : LogIds \union {NONE}, nextLog : LogIds \union {NONE}]
    BY <1>1 DEF Inv, TypeOK
  <2> DEFINE e == [frame |-> currentFrame, data |-> arg[t], previousLog |-> master[r].lastLog, nextLog |-> NONE]
  <2> HIDE DEF e
  <2>2. QED
    BY <1>4, <2>1 DEF Inv, TypeOK, Writing, e
<1>10. Chained'
  <2>1. ASSUME NEW q \in RowIds
        PROVE  Spelled(master'[q].firstLog, logs', chain'[q]) /\ InOrder(logs', chain'[q], logRows', currentFrame')
    <3>1. \A k \in DOMAIN chain[q] : k > 1 => k - 1 \in DOMAIN chain[q]
      BY ChainFacts
    <3>2. QED
      BY <1>4, <1>7, <1>8, <3>1 DEF Inv, Chained, Spelled, InOrder
  <2>2. QED
    BY <1>8, <2>1 DEF Inv, Chained
<1>11. \A q \in RowIds : chain[q] # <<>> => logs'[LastOf(chain[q])] = logs[LastOf(chain[q])]
  BY <1>5, <1>6, ChainFacts
<1>12. Ends'
  <2>1. ASSUME NEW q \in RowIds
        PROVE  /\ (\A u \in Threads : at'[u] = q => pc'[u] # "finish") => master'[q].lastLog = LastOf(chain'[q])
               /\ q \in rows' /\ chain'[q] # <<>>
                    /\ (\A u \in Threads : at'[u] = q => pc'[u] \notin {"reset", "finish", "unlist"})
                    => logs'[LastOf(chain'[q])].data # Deleted
    <3>1. \A u \in Threads : pc'[u] = pc[u] \/ (pc[u] = "append" /\ pc'[u] = "link")
      BY <1>1, <1>5
    <3>2. QED
      BY <1>4, <1>8, <1>11, <3>1 DEF Inv, Ends
  <2>2. QED
    BY <2>1 DEF Ends
<1>13. OneWriter'
  BY <1>1, <1>4, <1>5 DEF Inv, OneWriter, Writing
<1>14. InHand'
  <2>1. ASSUME NEW u \in Threads
        PROVE  /\ pc'[u] = "reset" => arg'[u] \in Values
               /\ pc'[u] \in {"append", "link", "finish"} => arg'[u] \in Values \union {Deleted}
               /\ pc'[u] = "link" =>
                    /\ tl'[u] \in logRows'
                    /\ logs'[tl'[u]] = [frame |-> currentFrame', data |-> arg'[u],
                                      previousLog |-> LastOf(chain'[at'[u]]), nextLog |-> NONE]
                    /\ \A q \in RowIds : tl'[u] \notin ToSet(chain'[q])
                    /\ \A k \in logRows' : logs'[k].nextLog # tl'[u]
                    /\ \A v \in Threads : pc'[v] = "link" /\ tl'[v] = tl'[u] => v = u
               /\ pc'[u] = "finish" =>
                    chain'[at'[u]] # <<>> /\ LastOf(chain'[at'[u]]) = tl'[u] /\ logs'[tl'[u]].data = arg'[u]
               /\ pc'[u] = "unlist" =>
                    chain'[at'[u]] # <<>> /\ logs'[LastOf(chain'[at'[u]])].data = Deleted
    <3>1. CASE u = t
      <4>1. pc'[u] = "link" /\ tl'[u] = l /\ at'[u] = r /\ arg'[u] = arg[t]
        BY <1>4, <1>5, <3>1 DEF r
      <4>2. \A k \in logRows : logs[k].nextLog # l
        BY <1>4 DEF Inv, Closed
      <4>3. \A k \in logRows' : logs'[k].nextLog # l
        BY <1>4, <1>5, <4>2
      <4>4. \A v \in Threads : pc[v] = "link" => tl[v] # l
        BY <1>4, Linking
      <4>5. QED
        BY <1>1, <1>4, <1>5, <1>6, <1>8, <3>1, <4>1, <4>3, <4>4
    <3>2. CASE u # t
      <4>1. pc'[u] = pc[u] /\ tl'[u] = tl[u] /\ at'[u] = at[u] /\ arg'[u] = arg[u]
        BY <1>4, <1>5, <3>2
      <4>2. ASSUME pc[u] = "link"
            PROVE  /\ tl[u] \in logRows /\ tl[u] # l /\ logs'[tl[u]] = logs[tl[u]]
                   /\ \A k \in logRows' : logs'[k].nextLog # tl[u]
        <5>1. tl[u] \in logRows /\ \A k \in logRows : logs[k].nextLog # tl[u]
          BY <4>2, Linking
        <5>2. logs'[l].nextLog = NONE
          BY <1>5
        <5>3. tl[u] # NONE
          BY <4>2, Linking
        <5>4. QED
          BY <1>4, <1>5, <5>1, <5>2, <5>3
      <4>3. pc[u] \in {"finish", "unlist"} => at[u] \in RowIds
        BY DEF Inv, OneWriter, Writing
      <4>4. pc[u] = "finish" => logs'[tl[u]] = logs[tl[u]]
        <5>1. pc[u] = "finish" => chain[at[u]] # <<>> /\ LastOf(chain[at[u]]) = tl[u]
          BY DEF Inv, InHand
        <5>2. QED
          BY <1>11, <4>3, <5>1
      <4>5. pc[u] = "unlist" => logs'[LastOf(chain[at[u]])] = logs[LastOf(chain[at[u]])]
        BY <1>11, <4>3 DEF Inv, InHand
      <4>6. \A v \in Threads : pc'[v] = "link" /\ tl'[v] = tl[u] /\ pc[u] = "link" => v = u
        <5> SUFFICES ASSUME NEW v \in Threads, pc'[v] = "link", tl'[v] = tl[u], pc[u] = "link"
                     PROVE  v = u
          OBVIOUS
        <5>1. v # t
          BY <1>5, <4>2
        <5>2. pc[v] = "link" /\ tl[v] = tl[u]
          BY <1>5, <5>1
        <5>3. QED
          BY <5>2, Linking
      <4>7. QED
        BY <1>4, <1>8, <4>1, <4>2, <4>4, <4>5, <4>6 DEF Inv, InHand
    <3>3. QED
      BY <3>1, <3>2
  <2>2. QED
    BY <2>1 DEF InHand
<1>15. Closed'
  BY <1>4, <1>5, <1>8 DEF Inv, Closed
<1>16. Readers'
  <2>1. ASSUME NEW u \in Threads, pc'[u] = "walk"
        PROVE  /\ at'[u] \in RowIds /\ tl'[u] \in logRows' /\ arg'[u] \in Nat
               /\ \A v \in Threads : pc'[v] = "link" => tl'[v] # tl'[u]
               /\ \A p \in DOMAIN chain'[at'[u]] : chain'[at'[u]][p] = tl'[u] =>
                    \A j \in 2 .. p : logs'[chain'[at'[u]][j]].frame <= arg'[u]
    <3>1. u # t /\ pc[u] = "walk" /\ tl'[u] = tl[u] /\ at'[u] = at[u] /\ arg'[u] = arg[u]
      BY <1>4, <1>5, <2>1
    <3>2. at[u] \in RowIds /\ tl[u] \in logRows
      BY <3>1 DEF Inv, Readers
    <3>3. \A p \in DOMAIN chain[at[u]] : \A j \in 2 .. p : logs'[chain[at[u]][j]] = logs[chain[at[u]][j]]
      BY <1>7, <3>2, ChainFacts
    <3>4. QED
      BY <1>4, <1>5, <1>8, <3>1, <3>2, <3>3 DEF Inv, Readers
  <2>2. QED
    BY <2>1 DEF Readers
<1>17. QED
  BY <1>4, <1>5, <1>8, <1>9, <1>10, <1>12, <1>13, <1>14, <1>15, <1>16 DEF Inv

(* The log is linked: it is the last of its row's chain.                   *)
LEMMA LinkStep ==
  ASSUME Inv, NEW t \in Threads, Link(t)
  PROVE  /\ Inv' /\ at[t] \in rows /\ chain' = [chain EXCEPT ![at[t]] = Append(chain[at[t]], tl[t])]
         /\ chain[at[t]] # <<>> => logs[LastOf(chain[at[t]])].data # Deleted
         /\ logs[tl[t]].frame = currentFrame /\ logs[tl[t]].data \in Values \union {Deleted}
         /\ \A l \in LogIds : logs'[l].frame = logs[l].frame /\ logs'[l].data = logs[l].data
         /\ \A q \in RowIds : master'[q].data = master[q].data
<1> USE DbTableAssumption
<1> DEFINE r == at[t]
           n == tl[t]
           c == chain[r]
<1>1. pc[t] = "link" /\ r \in RowIds /\ r \in rows /\ arg[t] \in Values \union {Deleted}
      /\ \A u \in Threads : pc[u] \in Writing /\ at[u] = r => u = t
  BY DEF Link, Inv, OneWriter, InHand, Writing
<1>2. master[r].lastLog = LastOf(c) /\ (c # <<>> => logs[LastOf(c)].data # Deleted)
  <2>1. \A u \in Threads : at[u] = r => pc[u] \notin {"reset", "finish", "unlist"}
    BY <1>1 DEF Writing
  <2>2. QED
    BY <1>1, <2>1 DEF Inv, Ends
<1>3. /\ UNCHANGED <<currentFrame, rows, logRows, at, tl, arg, out>>
      /\ pc' = [pc EXCEPT ![t] = "finish"]
  BY DEF Link, Goto
<1>4. \A u \in Threads : pc'[u] = IF u = t THEN "finish" ELSE pc[u]
  BY <1>3 DEF Inv, TypeOK
<1>5. /\ n \in logRows /\ n \in LogIds
      /\ logs[n].frame = currentFrame /\ logs[n].data = arg[t] /\ logs[n].previousLog = LastOf(c) /\ logs[n].nextLog = NONE
      /\ \A q \in RowIds : n \notin ToSet(chain[q])
      /\ \A l \in logRows : logs[l].nextLog # n
      /\ \A v \in Threads : pc[v] = "link" /\ tl[v] = n => v = t
  <2>1. /\ n \in logRows /\ n \in LogIds
        /\ \A q \in RowIds : n \notin ToSet(chain[q])
        /\ \A l \in logRows : logs[l].nextLog # n
        /\ \A v \in Threads : pc[v] = "link" /\ tl[v] = n => v = t
    BY <1>1, Linking
  <2>2. logs[n] = [frame |-> currentFrame, data |-> arg[t], previousLog |-> LastOf(c), nextLog |-> NONE]
    BY <1>1, Linking
  <2>3. QED
    BY <2>1, <2>2
<1>6. /\ c \in Seq(LogIds) /\ IsInjective(c) /\ Len(c) \in Nat /\ DOMAIN c = 1 .. Len(c)
      /\ \A k \in 1 .. Len(c) : c[k] \in LogIds /\ c[k] \in logRows /\ c[k] # n
      /\ c # <<>> => Len(c) # 0 /\ LastOf(c) = c[Len(c)] /\ LastOf(c) \in LogIds /\ LastOf(c) \in ToSet(c)
  BY <1>1, <1>5, ChainFacts
<1>7. master[r].firstLog = NONE <=> c = <<>>
  <2>1. Spelled(master[r].firstLog, logs, c)
    BY <1>1 DEF Inv, Chained
  <2>2. c # <<>> => c[1] \in LogIds
    BY <1>6
  <2>3. QED
    BY <2>1, <2>2 DEF Spelled
<1>8. /\ \A q \in RowIds : master'[q].firstLog = (IF q = r /\ c = <<>> THEN n ELSE master[q].firstLog)
                           /\ master'[q].lastLog = master[q].lastLog /\ master'[q].data = master[q].data
      /\ master' \in [RowIds -> Masters]
  <2>1. master \in [RowIds -> Masters]
    BY DEF Inv, TypeOK, Masters, LogOrNone
  <2>2. \A m \in Masters : LET o == [m EXCEPT !.firstLog = n] IN o \in Masters /\ o.firstLog = n /\ o.lastLog = m.lastLog /\ o.data = m.data
    BY <1>5 DEF Masters, LogOrNone
  <2>3. CASE c = <<>>
    <3>1. master' = [master EXCEPT ![r] = [master[r] EXCEPT !.firstLog = n]]
      BY <1>1, <1>7, <2>1, <2>3 DEF Link
    <3>2. QED
      BY <1>1, <2>1, <2>2, <2>3, <3>1
  <2>4. CASE c # <<>>
    BY <1>7, <2>1, <2>4 DEF Link
  <2>5. QED
    BY <2>3, <2>4
<1>9. /\ \A l \in LogIds : logs'[l].frame = logs[l].frame /\ logs'[l].data = logs[l].data /\ logs'[l].previousLog = logs[l].previousLog
                           /\ logs'[l].nextLog = IF c # <<>> /\ l = LastOf(c) THEN n ELSE logs[l].nextLog
      /\ \A l \in LogIds : ~(c # <<>> /\ l = LastOf(c)) => logs'[l] = logs[l]
      /\ logs' \in [LogIds -> Entries]
  <2>1. logs \in [LogIds -> Entries]
    BY DEF Inv, TypeOK, Entries, LogOrNone
  <2>2. \A e \in Entries : LET o == [e EXCEPT !.nextLog = n]
                           IN o \in Entries /\ o.frame = e.frame /\ o.data = e.data /\ o.previousLog = e.previousLog /\ o.nextLog = n
    BY <1>5 DEF Entries, LogOrNone
  <2>3. CASE c # <<>>
    <3>1. logs' = [logs EXCEPT ![LastOf(c)] = [logs[LastOf(c)] EXCEPT !.nextLog = n]]
      BY <1>2, <1>6, <1>7, <2>1, <2>3 DEF Link
    <3>2. QED
      BY <1>6, <2>1, <2>2, <2>3, <3>1
  <2>4. CASE c = <<>>
    BY <1>7, <2>1, <2>4 DEF Link
  <2>5. QED
    BY <2>3, <2>4
<1> HIDE DEF r, n, c
<1>10. /\ Append(c, n) \in Seq(LogIds) /\ IsInjective(Append(c, n)) /\ Append(c, n) # <<>>
       /\ Len(Append(c, n)) = Len(c) + 1 /\ DOMAIN Append(c, n) = 1 .. Len(c) + 1
       /\ \A k \in 1 .. Len(c) : Append(c, n)[k] = c[k]
       /\ Append(c, n)[Len(c) + 1] = n
       /\ LastOf(Append(c, n)) = n
  <2>1. /\ Append(c, n) \in Seq(LogIds) /\ Len(Append(c, n)) = Len(c) + 1 /\ DOMAIN Append(c, n) = 1 .. Len(c) + 1
        /\ \A k \in 1 .. Len(c) : Append(c, n)[k] = c[k]
        /\ Append(c, n)[Len(c) + 1] = n
    BY <1>5, <1>6
  <2>2. Append(c, n) # <<>>
    BY <1>6, <2>1
  <2>3. IsInjective(Append(c, n))
    BY <1>6, <2>1 DEF IsInjective
  <2>4. QED
    BY <2>1, <2>2, <2>3 DEF LastOf
<1>11. \A q \in RowIds : q # r => \A k \in DOMAIN chain[q] : chain[q][k] \in LogIds /\ (c # <<>> => chain[q][k] # LastOf(c))
  <2>1. ASSUME NEW q \in RowIds, q # r, NEW k \in DOMAIN chain[q]
        PROVE  chain[q][k] \in LogIds /\ (c # <<>> => chain[q][k] # LastOf(c))
    <3>1. chain[q][k] \in ToSet(chain[q]) /\ chain[q][k] \in LogIds
      BY ChainFacts
    <3>2. ToSet(chain[q]) \intersect ToSet(c) = {}
      BY <1>1, <2>1 DEF Inv, Chained, c
    <3>3. QED
      BY <1>6, <3>1, <3>2
  <2>2. QED
    BY <2>1
<1>12. Spelled(master'[r].firstLog, logs', Append(c, n))
  <2>1. master'[r].firstLog = Append(c, n)[1]
    <3>1. CASE c = <<>>
      <4>1. Len(c) = 0
        BY <3>1
      <4>2. QED
        BY <1>1, <1>8, <1>10, <3>1, <4>1
    <3>2. CASE c # <<>>
      <4>1. master[r].firstLog = c[1] /\ 1 \in 1 .. Len(c)
        BY <1>1, <1>6, <3>2 DEF Inv, Chained, Spelled, c
      <4>2. QED
        BY <1>1, <1>8, <1>10, <3>2, <4>1
    <3>3. QED
      BY <3>1, <3>2
  <2>2. ASSUME NEW k \in 1 .. Len(c) + 1
        PROVE  logs'[Append(c, n)[k]].nextLog = IF k = Len(c) + 1 THEN NONE ELSE Append(c, n)[k + 1]
    <3>1. CASE k = Len(c) + 1
      <4>1. c # <<>> => n # LastOf(c)
        BY <1>6
      <4>2. QED
        BY <1>5, <1>9, <1>10, <3>1, <4>1
    <3>2. CASE k = Len(c)
      <4>1. k \in 1 .. Len(c) /\ Append(c, n)[k] = c[k] /\ c[k] \in LogIds /\ Append(c, n)[k + 1] = n
        BY <1>6, <1>10, <3>2
      <4>2. c # <<>>
        BY <4>1
      <4>3. LastOf(c) = c[k]
        BY <1>6, <3>2, <4>2
      <4>4. logs'[c[k]].nextLog = n
        BY <1>9, <4>1, <4>2, <4>3
      <4>5. QED
        BY <1>6, <3>2, <4>1, <4>4
    <3>3. CASE k < Len(c)
      <4>1. logs[c[k]].nextLog = c[k + 1]
        BY <1>1, <1>6, <3>3 DEF Inv, Chained, Spelled, c
      <4>2. c[k] # LastOf(c) /\ c[k] \in LogIds
        BY <1>6, <3>3 DEF IsInjective
      <4>3. Append(c, n)[k] = c[k] /\ Append(c, n)[k + 1] = c[k + 1]
        BY <1>6, <1>10, <3>3
      <4>4. QED
        BY <1>6, <1>9, <3>3, <4>1, <4>2, <4>3
    <3>4. QED
      BY <1>6, <3>1, <3>2, <3>3
  <2>3. QED
    BY <1>10, <2>1, <2>2 DEF Spelled
<1>13. chain' = [chain EXCEPT ![r] = Append(c, n)]
  <2> DEFINE f == [chain EXCEPT ![r] = Append(c, n)]
  <2>1. ASSUME NEW q \in RowIds
        PROVE  f[q] \in Seq(LogIds) /\ Spelled(master'[q].firstLog, logs', f[q])
    <3>1. CASE q = r
      <4>1. f[q] = Append(c, n)
        BY <3>1 DEF chain
      <4>2. QED
        BY <1>10, <1>12, <3>1, <4>1
    <3>2. CASE q # r
      <4>1. f[q] = chain[q]
        BY <3>2 DEF chain
      <4>2. \A k \in DOMAIN chain[q] : logs'[chain[q][k]].nextLog = logs[chain[q][k]].nextLog
        BY <1>9, <1>11, <3>2
      <4>3. master'[q].firstLog = master[q].firstLog
        BY <1>8, <3>2
      <4>4. Spelled(master[q].firstLog, logs, chain[q])
        BY DEF Inv, Chained
      <4>5. chain[q] \in Seq(LogIds) /\ Spelled(master'[q].firstLog, logs', chain[q])
        BY <4>2, <4>3, <4>4 DEF Spelled
      <4>6. QED
        BY <4>1, <4>5
    <3>3. QED
      BY <3>1, <3>2
  <2>2. f \in [RowIds -> Seq(LogIds)]
    BY <2>1 DEF chain
  <2>3. QED
    BY <2>1, <2>2, Respelled
<1>14. chain'[r] = Append(c, n) /\ \A q \in RowIds : q # r => chain'[q] = chain[q]
  BY <1>1, <1>13 DEF chain
<1>15. ToSet(chain'[r]) = ToSet(c) \union {n}
  BY <1>6, <1>10, <1>14 DEF ToSet
<1>16. TypeOK'
  BY <1>3, <1>8, <1>9 DEF Inv, TypeOK, Masters, Entries, LogOrNone, Writing
<1>17. Chained'
  <2>1. ASSUME NEW q \in RowIds
        PROVE  Spelled(master'[q].firstLog, logs', chain'[q]) /\ InOrder(logs', chain'[q], logRows', currentFrame')
    <3>1. CASE q = r
      <4>1. ASSUME NEW k \in 1 .. Len(c) + 1
            PROVE  /\ Append(c, n)[k] \in logRows
                   /\ logs'[Append(c, n)[k]].previousLog = IF k = 1 THEN NONE ELSE Append(c, n)[k - 1]
                   /\ logs'[Append(c, n)[k]].frame \in 1 .. currentFrame
                   /\ k > 1 => logs'[Append(c, n)[k - 1]].frame <= logs'[Append(c, n)[k]].frame
                   /\ k < Len(c) + 1 => logs'[Append(c, n)[k]].data # Deleted
        <5>1. currentFrame \in 1 .. MaxFrame
          BY DEF Inv, TypeOK
        <5>2. InOrder(logs, c, logRows, currentFrame)
          BY <1>1 DEF Inv, Chained, c
        <5>3. CASE k = Len(c) + 1
          <6>1. Append(c, n)[k] = n /\ n \in LogIds
            BY <1>5, <1>10, <5>3
          <6>2. logs'[n].frame = currentFrame /\ logs'[n].previousLog = LastOf(c)
            BY <1>5, <1>9
          <6>3. CASE k = 1
            <7>1. c = <<>>
              BY <1>6, <5>3, <6>3
            <7>2. LastOf(c) = NONE
              BY <7>1 DEF LastOf
            <7>3. ~(k > 1) /\ ~(k < Len(c) + 1) /\ n \in logRows
              BY <1>5, <1>6, <5>3, <6>3
            <7>4. logs'[n].previousLog = NONE /\ logs'[n].frame \in 1 .. currentFrame
              BY <5>1, <6>2, <7>2
            <7>5. QED
              BY <6>1, <6>3, <7>3, <7>4
          <6>4. CASE k # 1
            <7>1. k - 1 = Len(c) /\ k - 1 \in 1 .. Len(c)
              BY <1>6, <5>3, <6>4
            <7>2. c # <<>> /\ LastOf(c) = c[k - 1] /\ Append(c, n)[k - 1] = c[k - 1] /\ c[k - 1] \in LogIds
              BY <1>6, <1>10, <7>1
            <7>3. logs'[c[k - 1]].frame \in 1 .. currentFrame
              BY <1>6, <1>9, <5>2, <7>1, <7>2 DEF InOrder
            <7>4. /\ logs'[n].previousLog = Append(c, n)[k - 1]
                  /\ logs'[n].frame \in 1 .. currentFrame
                  /\ logs'[Append(c, n)[k - 1]].frame <= logs'[n].frame
              BY <5>1, <6>2, <7>2, <7>3
            <7>5. ~(k < Len(c) + 1)
              BY <1>6, <5>3
            <7>6. n \in logRows
              BY <1>5
            <7>7. logs'[Append(c, n)[k]] = logs'[n]
              BY <6>1
            <7>8. QED
              BY <6>1, <6>4, <7>4, <7>5, <7>6, <7>7
          <6>5. QED
            BY <6>3, <6>4
        <5>4. CASE k \in 1 .. Len(c)
          <6>1. Append(c, n)[k] = c[k] /\ c[k] \in LogIds
            BY <1>6, <1>10, <5>4
          <6>2. k > 1 => Append(c, n)[k - 1] = c[k - 1] /\ c[k - 1] \in LogIds
            BY <1>6, <1>10, <5>4
          <6>3. k = Len(c) => logs[c[k]].data # Deleted
            BY <1>2, <1>6, <5>4 DEF c, r
          <6>4. /\ c[k] \in logRows
                /\ logs[c[k]].previousLog = IF k = 1 THEN NONE ELSE c[k - 1]
                /\ logs[c[k]].frame \in 1 .. currentFrame
                /\ k > 1 => logs[c[k - 1]].frame <= logs[c[k]].frame
                /\ k < Len(c) => logs[c[k]].data # Deleted
            BY <1>6, <5>2, <5>4 DEF InOrder
          <6>5. k < Len(c) + 1 => logs[c[k]].data # Deleted
            BY <1>6, <5>4, <6>3, <6>4
          <6>6. QED
            BY <1>9, <6>1, <6>2, <6>4, <6>5
        <5>5. QED
          BY <1>6, <5>3, <5>4
      <4>2. InOrder(logs', Append(c, n), logRows', currentFrame')
        BY <1>3, <1>10, <4>1 DEF InOrder
      <4>3. QED
        BY <1>12, <1>14, <3>1, <4>2
    <3>2. CASE q # r
      <4>1. \A k \in DOMAIN chain[q] : logs'[chain[q][k]] = logs[chain[q][k]]
        BY <1>9, <1>11, <3>2
      <4>2. \A k \in DOMAIN chain[q] : k > 1 => k - 1 \in DOMAIN chain[q]
        BY ChainFacts
      <4>3. Spelled(master[q].firstLog, logs, chain[q]) /\ InOrder(logs, chain[q], logRows, currentFrame)
        BY DEF Inv, Chained
      <4>4. Spelled(master'[q].firstLog, logs', chain[q])
        BY <1>8, <3>2, <4>1, <4>3 DEF Spelled
      <4>5. InOrder(logs', chain[q], logRows', currentFrame')
        BY <1>3, <4>1, <4>2, <4>3 DEF InOrder
      <4>6. QED
        BY <1>14, <3>2, <4>4, <4>5
    <3>3. QED
      BY <3>1, <3>2
  <2>2. ASSUME NEW p \in RowIds, NEW q \in RowIds, p # q
        PROVE  ToSet(chain'[p]) \intersect ToSet(chain'[q]) = {}
    <3>1. ToSet(chain[p]) \intersect ToSet(chain[q]) = {}
      BY <2>2 DEF Inv, Chained
    <3>2. n \notin ToSet(chain[p]) /\ n \notin ToSet(chain[q])
      BY <1>5
    <3>3. CASE p = r
      <4>1. chain'[q] = chain[q] /\ ToSet(chain'[p]) = ToSet(chain[p]) \union {n}
        BY <1>14, <1>15, <2>2, <3>3 DEF c
      <4>2. QED
        BY <3>1, <3>2, <4>1
    <3>4. CASE q = r
      <4>1. chain'[p] = chain[p] /\ ToSet(chain'[q]) = ToSet(chain[q]) \union {n}
        BY <1>14, <1>15, <2>2, <3>4 DEF c
      <4>2. QED
        BY <3>1, <3>2, <4>1
    <3>5. CASE p # r /\ q # r
      BY <1>14, <3>1, <3>5
    <3>6. QED
      BY <3>3, <3>4, <3>5
  <2>3. QED
    BY <2>1, <2>2 DEF Chained
<1>18. Ends'
  <2>1. ASSUME NEW q \in RowIds
        PROVE  /\ (\A u \in Threads : at'[u] = q => pc'[u] # "finish") => master'[q].lastLog = LastOf(chain'[q])
               /\ q \in rows' /\ chain'[q] # <<>>
                    /\ (\A u \in Threads : at'[u] = q => pc'[u] \notin {"reset", "finish", "unlist"})
                    => logs'[LastOf(chain'[q])].data # Deleted
    <3>1. CASE q = r
      <4>1. at'[t] = q /\ pc'[t] = "finish"
        BY <1>3, <1>4, <3>1 DEF r
      <4>2. QED
        BY <4>1
    <3>2. CASE q # r
      <4>1. \A u \in Threads : at[u] = q => pc'[u] = pc[u] /\ at'[u] = at[u]
        BY <1>3, <1>4, <3>2 DEF r
      <4>2. chain'[q] = chain[q] /\ master'[q].lastLog = master[q].lastLog
        BY <1>8, <1>14, <3>2
      <4>3. chain[q] # <<>> => logs'[LastOf(chain[q])].data = logs[LastOf(chain[q])].data
        BY <1>9, ChainFacts
      <4>4. QED
        BY <1>3, <4>1, <4>2, <4>3 DEF Inv, Ends
    <3>3. QED
      BY <3>1, <3>2
  <2>2. QED
    BY <2>1 DEF Ends
<1>19. OneWriter'
  BY <1>1, <1>3, <1>4 DEF Inv, OneWriter, Writing
<1>20. InHand'
  <2>1. ASSUME NEW u \in Threads
        PROVE  /\ pc'[u] = "reset" => arg'[u] \in Values
               /\ pc'[u] \in {"append", "link", "finish"} => arg'[u] \in Values \union {Deleted}
               /\ pc'[u] = "link" =>
                    /\ tl'[u] \in logRows'
                    /\ logs'[tl'[u]] = [frame |-> currentFrame', data |-> arg'[u],
                                      previousLog |-> LastOf(chain'[at'[u]]), nextLog |-> NONE]
                    /\ \A q \in RowIds : tl'[u] \notin ToSet(chain'[q])
                    /\ \A k \in logRows' : logs'[k].nextLog # tl'[u]
                    /\ \A v \in Threads : pc'[v] = "link" /\ tl'[v] = tl'[u] => v = u
               /\ pc'[u] = "finish" =>
                    chain'[at'[u]] # <<>> /\ LastOf(chain'[at'[u]]) = tl'[u] /\ logs'[tl'[u]].data = arg'[u]
               /\ pc'[u] = "unlist" =>
                    chain'[at'[u]] # <<>> /\ logs'[LastOf(chain'[at'[u]])].data = Deleted
    <3>1. CASE u = t
      <4>1. pc'[u] = "finish" /\ tl'[u] = n /\ at'[u] = r /\ arg'[u] = arg[t]
        BY <1>3, <1>4, <3>1 DEF r, n
      <4>2. QED
        BY <1>1, <1>5, <1>9, <1>10, <1>14, <4>1
    <3>2. CASE u # t /\ pc[u] \in Writing
      <4>1. pc'[u] = pc[u] /\ tl'[u] = tl[u] /\ at'[u] = at[u] /\ arg'[u] = arg[u]
        BY <1>3, <1>4, <3>2
      <4>2. at[u] \in RowIds /\ at[u] # r
        BY <1>1, <3>2 DEF Inv, OneWriter
      <4>3. chain'[at[u]] = chain[at[u]]
        BY <1>14, <4>2
      <4>4. ASSUME pc[u] = "link"
            PROVE  /\ tl[u] \in logRows /\ tl[u] \in LogIds /\ tl[u] # n /\ logs'[tl[u]] = logs[tl[u]]
                   /\ \A q \in RowIds : tl[u] \notin ToSet(chain'[q])
                   /\ \A k \in logRows : logs'[k].nextLog # tl[u]
        <5>1. /\ tl[u] \in logRows /\ tl[u] \in LogIds
              /\ \A k \in logRows : logs[k].nextLog # tl[u]
              /\ \A q \in RowIds : tl[u] \notin ToSet(chain[q])
          BY <4>4, Linking
        <5>2. tl[u] # n
          BY <1>5, <3>2, <4>4
        <5>3. logs'[tl[u]] = logs[tl[u]]
          BY <1>1, <1>6, <1>9, <5>1 DEF c
        <5>4. \A q \in RowIds : tl[u] \notin ToSet(chain'[q])
          BY <1>1, <1>14, <1>15, <5>1, <5>2 DEF c
        <5>5. \A k \in logRows : k \in LogIds
          BY DEF Inv, TypeOK
        <5>6. \A k \in logRows : logs'[k].nextLog # tl[u]
          BY <1>9, <5>1, <5>2, <5>5
        <5>7. QED
          BY <5>1, <5>2, <5>3, <5>4, <5>6
      <4>5. pc[u] = "finish" => tl[u] \in LogIds /\ logs'[tl[u]].data = logs[tl[u]].data
        <5>1. pc[u] = "finish" => chain[at[u]] # <<>> /\ LastOf(chain[at[u]]) = tl[u]
          BY DEF Inv, InHand
        <5>2. QED
          BY <1>9, <4>2, <5>1, ChainFacts
      <4>6. pc[u] = "unlist" => logs'[LastOf(chain[at[u]])].data = logs[LastOf(chain[at[u]])].data
        <5>1. pc[u] = "unlist" => chain[at[u]] # <<>>
          BY DEF Inv, InHand
        <5>2. QED
          BY <1>9, <4>2, <5>1, ChainFacts
      <4>7. \A v \in Threads : pc'[v] = "link" => pc[v] = "link"
        BY <1>4
      <4>8. CASE pc[u] = "link"
        <5>1. logs[tl[u]] = [frame |-> currentFrame, data |-> arg[u],
                             previousLog |-> LastOf(chain[at[u]]), nextLog |-> NONE]
              /\ \A v \in Threads : pc[v] = "link" /\ tl[v] = tl[u] => v = u
          BY <4>8, Linking
        <5>2. arg[u] \in Values \union {Deleted}
          BY <4>8 DEF Inv, InHand
        <5>3. QED
          BY <1>3, <4>1, <4>3, <4>4, <4>7, <4>8, <5>1, <5>2
      <4>9. CASE pc[u] # "link"
        BY <1>3, <4>1, <4>3, <4>5, <4>6, <4>9 DEF Inv, InHand
      <4>10. QED
        BY <4>8, <4>9
    <3>3. CASE u # t /\ pc[u] \notin Writing
      BY <1>4, <3>3 DEF Writing
    <3>4. QED
      BY <3>1, <3>2, <3>3
  <2>2. QED
    BY <2>1 DEF InHand
<1>21. Closed'
  <2>1. ASSUME NEW l \in logRows, logs'[l].nextLog # NONE
        PROVE  /\ logs'[l].nextLog \in logRows
               /\ \A q \in RowIds : logs'[l].nextLog \in ToSet(chain'[q]) => l \in ToSet(chain'[q])
    <3>1. l \in LogIds
      BY DEF Inv, TypeOK
    <3>2. CASE c # <<>> /\ l = LastOf(c)
      <4>1. logs'[l].nextLog = n
        BY <1>9, <3>1, <3>2
      <4>2. \A q \in RowIds : n \in ToSet(chain'[q]) => q = r
        BY <1>5, <1>14
      <4>3. l \in ToSet(chain'[r])
        BY <1>6, <1>15, <3>2
      <4>4. QED
        BY <1>5, <4>1, <4>2, <4>3
    <3>3. CASE ~(c # <<>> /\ l = LastOf(c))
      <4>1. logs'[l].nextLog = logs[l].nextLog
        BY <1>9, <3>1, <3>3
      <4>2. /\ logs[l].nextLog \in logRows /\ logs[l].nextLog # n
            /\ \A q \in RowIds : logs[l].nextLog \in ToSet(chain[q]) => l \in ToSet(chain[q])
        BY <1>5, <2>1, <4>1 DEF Inv, Closed
      <4>3. QED
        BY <1>1, <1>14, <1>15, <4>1, <4>2 DEF c
    <3>4. QED
      BY <3>2, <3>3
  <2>2. QED
    BY <1>3, <2>1 DEF Closed
<1>22. Readers'
  <2>1. ASSUME NEW u \in Threads, pc'[u] = "walk"
        PROVE  /\ at'[u] \in RowIds /\ tl'[u] \in logRows' /\ arg'[u] \in Nat
               /\ \A v \in Threads : pc'[v] = "link" => tl'[v] # tl'[u]
               /\ \A p \in DOMAIN chain'[at'[u]] : chain'[at'[u]][p] = tl'[u] =>
                    \A j \in 2 .. p : logs'[chain'[at'[u]][j]].frame <= arg'[u]
    <3>1. u # t /\ pc[u] = "walk" /\ tl'[u] = tl[u] /\ at'[u] = at[u] /\ arg'[u] = arg[u]
      BY <1>3, <1>4, <2>1
    <3>2. /\ at[u] \in RowIds /\ tl[u] \in logRows /\ arg[u] \in Nat
          /\ \A v \in Threads : pc[v] = "link" => tl[v] # tl[u]
          /\ \A p \in DOMAIN chain[at[u]] : chain[at[u]][p] = tl[u] =>
               \A j \in 2 .. p : logs[chain[at[u]][j]].frame <= arg[u]
      BY <3>1 DEF Inv, Readers
    <3>3. tl[u] # n
      BY <1>1, <3>2 DEF n
    <3>4. \A v \in Threads : pc'[v] = "link" => pc[v] = "link"
      BY <1>4
    <3>5. ASSUME NEW p \in DOMAIN chain'[at[u]], chain'[at[u]][p] = tl[u], NEW j \in 2 .. p
          PROVE  logs'[chain'[at[u]][j]].frame <= arg[u]
      <4>1. CASE at[u] = r
        <5>1. p \in 1 .. Len(c)
          BY <1>6, <1>10, <1>14, <3>3, <3>5, <4>1
        <5>2. j \in 1 .. Len(c) /\ c[p] = tl[u] /\ chain'[r][j] = c[j] /\ c[j] \in LogIds
          BY <1>6, <1>10, <1>14, <3>5, <4>1, <5>1
        <5>3. logs[c[j]].frame <= arg[u]
          BY <1>6, <3>2, <3>5, <4>1, <5>1, <5>2 DEF c
        <5>4. QED
          BY <1>9, <4>1, <5>2, <5>3
      <4>2. CASE at[u] # r
        <5>1. chain'[at[u]] = chain[at[u]]
          BY <1>14, <3>2, <4>2
        <5>2. p \in DOMAIN chain[at[u]] /\ chain[at[u]][p] = tl[u]
          BY <3>5, <5>1
        <5>3. j \in 1 .. Len(chain[at[u]]) /\ chain[at[u]][j] \in LogIds
          BY <3>2, <5>2, ChainFacts
        <5>4. logs[chain[at[u]][j]].frame <= arg[u]
          BY <3>2, <5>2
        <5>5. QED
          BY <1>9, <5>1, <5>3, <5>4
      <4>3. QED
        BY <4>1, <4>2
    <3>6. QED
      BY <1>3, <3>1, <3>2, <3>4, <3>5
  <2>2. QED
    BY <2>1 DEF Readers
<1>23. Inv'
  BY <1>16, <1>17, <1>18, <1>19, <1>20, <1>21, <1>22 DEF Inv
<1>24. at[t] \in rows /\ chain' = [chain EXCEPT ![at[t]] = Append(chain[at[t]], tl[t])]
  BY <1>1, <1>13 DEF r, n, c
<1>25. /\ chain[at[t]] # <<>> => logs[LastOf(chain[at[t]])].data # Deleted
       /\ logs[tl[t]].frame = currentFrame /\ logs[tl[t]].data \in Values \union {Deleted}
  BY <1>1, <1>2, <1>5 DEF r, n, c
<1>26. QED
  BY <1>8, <1>9, <1>23, <1>24, <1>25

(* A write ends: lastLog is the last log again, and a row that was freed   *)
(* leaves the list.                                                        *)
LEMMA FinishStep ==
  ASSUME Inv, NEW t \in Threads, Finish(t) \/ Unlist(t)
  PROVE  /\ Inv' /\ chain' = chain /\ \A q \in RowIds : master'[q].data = master[q].data
         /\ at[t] \in rows /\ (pc[t] = "unlist" => chain[at[t]] # <<>> /\ logs[LastOf(chain[at[t]])].data = Deleted)
<1> USE DbTableAssumption
<1> DEFINE r == at[t]
           c == chain[r]
<1>1. pc[t] \in {"finish", "unlist"} /\ r \in RowIds /\ r \in rows
      /\ \A u \in Threads : pc[u] \in Writing /\ at[u] = r => u = t
  BY DEF Finish, Unlist, Inv, OneWriter, Writing
<1>2. /\ c # <<>> /\ LastOf(c) \in LogIds
      /\ pc[t] = "finish" => tl[t] = LastOf(c) /\ logs[LastOf(c)].data = arg[t]
      /\ pc[t] = "unlist" => logs[LastOf(c)].data = Deleted /\ master[r].lastLog = LastOf(c)
  <2>1. /\ c # <<>> 
        /\ pc[t] = "finish" => tl[t] = LastOf(c) /\ logs[LastOf(c)].data = arg[t]
        /\ pc[t] = "unlist" => logs[LastOf(c)].data = Deleted
    BY <1>1 DEF Inv, InHand
  <2>2. pc[t] = "unlist" => \A u \in Threads : at[u] = r => pc[u] # "finish"
    BY <1>1 DEF Writing
  <2>3. pc[t] = "unlist" => master[r].lastLog = LastOf(c)
    BY <1>1, <2>2 DEF Inv, Ends
  <2>4. LastOf(c) \in LogIds
    BY <1>1, <2>1, ChainFacts
  <2>5. QED
    BY <2>1, <2>3, <2>4
<1>3. UNCHANGED <<currentFrame, logs, logRows>>
  BY DEF Finish, Unlist
<1>4. /\ \A u \in Threads : u # t => pc'[u] = pc[u] /\ at'[u] = at[u] /\ tl'[u] = tl[u] /\ arg'[u] = arg[u]
      /\ pc'[t] \in {"idle", "unlist"}
      /\ pc'[t] = "unlist" => pc[t] = "finish" /\ arg[t] = Deleted /\ at' = at
      /\ pc'[t] = "idle" => at'[t] = NONE
  BY DEF Inv, TypeOK, Finish, Unlist, Return, Goto
<1>5. /\ rows \ {r} \subseteq rows' /\ rows' \subseteq rows
      /\ r \in rows' => pc[t] = "finish" /\ (arg[t] = Deleted => pc'[t] = "unlist")
      /\ pc'[t] = "unlist" => rows' = rows
  BY DEF Inv, TypeOK, Finish, Unlist, Return, Goto
<1>6. /\ \A q \in RowIds : q # r => master'[q] = master[q]
      /\ master'[r].firstLog = master[r].firstLog /\ master'[r].lastLog = LastOf(c) /\ master'[r].data = master[r].data
      /\ master' \in [RowIds -> Masters]
  <2>1. master \in [RowIds -> Masters]
    BY DEF Inv, TypeOK, Masters, LogOrNone
  <2>2. \A m \in Masters : LET o == [m EXCEPT !.lastLog = LastOf(c)]
                           IN o \in Masters /\ o.firstLog = m.firstLog /\ o.lastLog = LastOf(c) /\ o.data = m.data
    BY <1>2 DEF Masters, LogOrNone
  <2>3. CASE Finish(t)
    <3>1. master' = [master EXCEPT ![r] = [master[r] EXCEPT !.lastLog = LastOf(c)]]
      BY <1>1, <1>2, <2>1, <2>3 DEF Finish
    <3>2. QED
      BY <1>1, <2>1, <2>2, <3>1
  <2>4. CASE Unlist(t)
    BY <1>2, <2>1, <2>4 DEF Unlist
  <2>5. QED
    BY <2>3, <2>4
<1>7. TypeOK'
  <2>1. at' \in [Threads -> RowIds \union {NONE}] /\ tl' \in [Threads -> LogIds \union {NONE}]
        /\ arg' \in [Threads -> Values \union {Deleted, NONE} \union 0 .. MaxFrame]
        /\ out' \in [Threads -> Values \union {Deleted, NONE}]
        /\ pc' \in [Threads -> Writing \union {"idle", "walk", "loaded"}]
    BY DEF Inv, TypeOK, Finish, Unlist, Return, Goto, Writing
  <2>2. QED
    BY <1>3, <1>5, <1>6, <2>1 DEF Inv, TypeOK, Masters, LogOrNone
<1> HIDE DEF r, c
<1>8. chain' = chain
  <2>1. \A q \in RowIds : Spelled(master'[q].firstLog, logs', chain[q])
    BY <1>3, <1>6 DEF Inv, Chained
  <2>2. chain \in [RowIds -> Seq(LogIds)]
    BY ChainFacts DEF chain
  <2>3. QED
    BY <2>1, <2>2, Respelled
<1>9. Chained'
  <2>1. \A q \in RowIds : master'[q].firstLog = master[q].firstLog
    BY <1>6
  <2>2. QED
    BY <1>3, <1>8, <2>1 DEF Inv, Chained
<1>10. Ends'
  <2>1. ASSUME NEW q \in RowIds
        PROVE  /\ (\A u \in Threads : at'[u] = q => pc'[u] # "finish") => master'[q].lastLog = LastOf(chain'[q])
               /\ q \in rows' /\ chain'[q] # <<>>
                    /\ (\A u \in Threads : at'[u] = q => pc'[u] \notin {"reset", "finish", "unlist"})
                    => logs'[LastOf(chain'[q])].data # Deleted
    <3>1. CASE q = r
      <4>1. pc'[t] = "unlist" => at'[t] = q
        BY <1>4, <3>1 DEF r
      <4>2. QED
        BY <1>2, <1>3, <1>4, <1>5, <1>6, <1>8, <3>1, <4>1 DEF c
    <3>2. CASE q # r
      <4>1. \A u \in Threads : at[u] = q => pc'[u] = pc[u] /\ at'[u] = at[u]
        BY <1>4, <3>2 DEF r
      <4>2. QED
        BY <1>3, <1>5, <1>6, <1>8, <3>2, <4>1 DEF Inv, Ends
    <3>3. QED
      BY <3>1, <3>2
  <2>2. QED
    BY <2>1 DEF Ends
<1>11. OneWriter'
  <2>1. ASSUME NEW u \in Threads, pc'[u] \in Writing
        PROVE  /\ at'[u] \in RowIds /\ at'[u] \in rows'
               /\ \A v \in Threads : pc'[v] \in Writing /\ at'[v] = at'[u] => v = u
    <3>1. \A v \in Threads : pc'[v] \in Writing => pc[v] \in Writing /\ at'[v] = at[v]
      BY <1>1, <1>4 DEF Writing
    <3>2. /\ at[u] \in RowIds /\ at[u] \in rows
          /\ \A v \in Threads : pc[v] \in Writing /\ at[v] = at[u] => v = u
      BY <2>1, <3>1 DEF Inv, OneWriter
    <3>3. at[u] \in rows'
      <4>1. CASE u = t
        BY <1>4, <1>5, <2>1, <3>2, <4>1 DEF Writing
      <4>2. CASE u # t
        BY <1>1, <1>5, <2>1, <3>1, <3>2, <4>2
      <4>3. QED
        BY <4>1, <4>2
    <3>4. QED
      BY <2>1, <3>1, <3>2, <3>3
  <2>2. QED
    BY <2>1 DEF OneWriter
<1>12. InHand'
  <2>1. \A u \in Threads : pc'[u] = "link" => pc[u] = "link" /\ u # t
    BY <1>4
  <2>2. ASSUME NEW u \in Threads
        PROVE  /\ pc'[u] = "reset" => arg'[u] \in Values
               /\ pc'[u] \in {"append", "link", "finish"} => arg'[u] \in Values \union {Deleted}
               /\ pc'[u] = "link" =>
                    /\ tl'[u] \in logRows'
                    /\ logs'[tl'[u]] = [frame |-> currentFrame', data |-> arg'[u],
                                      previousLog |-> LastOf(chain'[at'[u]]), nextLog |-> NONE]
                    /\ \A q \in RowIds : tl'[u] \notin ToSet(chain'[q])
                    /\ \A k \in logRows' : logs'[k].nextLog # tl'[u]
                    /\ \A v \in Threads : pc'[v] = "link" /\ tl'[v] = tl'[u] => v = u
               /\ pc'[u] = "finish" =>
                    chain'[at'[u]] # <<>> /\ LastOf(chain'[at'[u]]) = tl'[u] /\ logs'[tl'[u]].data = arg'[u]
               /\ pc'[u] = "unlist" =>
                    chain'[at'[u]] # <<>> /\ logs'[LastOf(chain'[at'[u]])].data = Deleted
    <3>1. CASE u = t
      BY <1>2, <1>3, <1>4, <1>8, <3>1 DEF c, r
    <3>2. CASE u # t
      <4>1. pc'[u] = pc[u] /\ tl'[u] = tl[u] /\ at'[u] = at[u] /\ arg'[u] = arg[u]
        BY <1>4, <3>2
      <4>2. \A v \in Threads : pc'[v] = "link" => tl'[v] = tl[v]
        BY <1>4, <2>1
      <4>3. CASE pc[u] = "link"
        <5>1. /\ tl[u] \in logRows
              /\ logs[tl[u]] = [frame |-> currentFrame, data |-> arg[u],
                                previousLog |-> LastOf(chain[at[u]]), nextLog |-> NONE]
              /\ \A q \in RowIds : tl[u] \notin ToSet(chain[q])
              /\ \A l \in logRows : logs[l].nextLog # tl[u]
              /\ \A v \in Threads : pc[v] = "link" /\ tl[v] = tl[u] => v = u
          BY <4>3, Linking
        <5>2. arg[u] \in Values \union {Deleted}
          BY <4>3 DEF Inv, InHand
        <5>3. QED
          BY <1>3, <1>8, <2>1, <4>1, <4>2, <4>3, <5>1, <5>2
      <4>4. CASE pc[u] # "link"
        BY <1>3, <1>8, <4>1, <4>4 DEF Inv, InHand
      <4>5. QED
        BY <4>3, <4>4
    <3>3. QED
      BY <3>1, <3>2
  <2>3. QED
    BY <2>2 DEF InHand
<1>13. Closed'
  BY <1>3, <1>8 DEF Inv, Closed
<1>14. Readers'
  <2>1. \A u \in Threads : pc'[u] \in {"walk", "link"} => u # t
    BY <1>4
  <2>2. QED
    BY <1>3, <1>4, <1>8, <2>1 DEF Inv, Readers
<1>15. Inv'
  BY <1>7, <1>9, <1>10, <1>11, <1>12, <1>13, <1>14 DEF Inv
<1>16. \A q \in RowIds : master'[q].data = master[q].data
  BY <1>6
<1>17. QED
  BY <1>1, <1>2, <1>8, <1>15, <1>16 DEF r, c

-----------------------------------------------------------------------------
(* A set of positions with all that precede them is a prefix.              *)
LEMMA Prefix ==
  ASSUME NEW len \in Nat, NEW K \in SUBSET (1 .. len), \A k \in K : \A j \in 1 .. k : j \in K
  PROVE  Cardinality(K) \in 0 .. len /\ K = 1 .. Cardinality(K)
<1> DEFINE Off == (1 .. len + 1) \ K
<1>1. Off \subseteq Nat /\ len + 1 \in Off
  OBVIOUS
<1>2. PICK k \in Off : \A j \in Off : ~(<<j, k>> \in OpToRel(<, Nat))
  <2> HIDE DEF Off
  <2>1. Off # {}
    BY <1>1
  <2>2. QED
    BY <1>1, <2>1, WFMin, NatLessThanWellFounded
<1>3. \A j \in Off : ~(j < k)
  BY <1>1, <1>2 DEF OpToRel
<1>4. K = 1 .. k - 1
  <2>1. ASSUME NEW j \in 1 .. k - 1
        PROVE  j \in K
    BY <1>3
  <2>2. ASSUME NEW j \in K
        PROVE  j \in 1 .. k - 1
    BY <2>2
  <2>3. QED
    BY <2>1, <2>2
<1>5. Cardinality(1 .. k - 1) = k - 1
  <2>1. 1 \in Int /\ k - 1 \in Int /\ k - 1 >= 0
    BY <1>1
  <2>2. Cardinality(1 .. k - 1) = (IF 1 > k - 1 THEN 0 ELSE (k - 1) - 1 + 1)
    BY <2>1, FS_Interval
  <2>3. QED
    BY <2>1, <2>2
<1>6. QED
  BY <1>1, <1>4, <1>5

(* What applyLogs folds of a chain is all that is not newer than its frame.*)
LEMMA FoldedFacts ==
  ASSUME Inv, NEW r \in RowIds, NEW f \in Nat
  PROVE  /\ Folded(r, f) \in 0 .. Len(chain[r])
         /\ \A k \in 1 .. Len(chain[r]) : logs[chain[r][k]].frame <= f <=> k <= Folded(r, f)
         /\ {k \in 1 .. Len(chain[r]) : logs[chain[r][k]].frame <= f} = 1 .. Folded(r, f)
<1> DEFINE c == chain[r]
           old(k) == logs[c[k]].frame <= f
           K == {k \in 1 .. Len(c) : \A j \in 1 .. k : old(j)}
<1>1. Len(c) \in Nat /\ DOMAIN c = 1 .. Len(c)
  BY ChainFacts
<1>2. Cardinality(K) \in 0 .. Len(c) /\ K = 1 .. Cardinality(K)
  <2>1. K \in SUBSET (1 .. Len(c)) /\ \A k \in K : \A j \in 1 .. k : j \in K
    BY <1>1
  <2> HIDE DEF K
  <2>2. QED
    BY <1>1, <2>1, Prefix
<1>3. Folded(r, f) = Cardinality(K)
  <2>1. Chain(r) = c
    BY DEF chain
  <2>2. QED
    BY <1>1, <2>1 DEF Folded
<1>4. \A k \in 1 .. Len(c) : logs[c[k]].frame \in Nat /\ (k > 1 => logs[c[k - 1]].frame <= logs[c[k]].frame)
  <2>1. InOrder(logs, c, logRows, currentFrame) /\ currentFrame \in Nat
    BY DEF Inv, Chained, TypeOK
  <2>2. QED
    BY <1>1, <2>1 DEF InOrder
<1>5. ASSUME NEW k \in 1 .. Len(c), old(k), k \notin K
      PROVE  FALSE
  <2> DEFINE Late == {j \in 1 .. Len(c) : old(j) /\ j \notin K}
  <2>1. Late \subseteq Nat /\ k \in Late
    BY <1>5
  <2>2. PICK j \in Late : \A i \in Late : ~(<<i, j>> \in OpToRel(<, Nat))
    <3> HIDE DEF Late
    <3>1. Late # {}
      BY <2>1
    <3>2. QED
      BY <2>1, <3>1, WFMin, NatLessThanWellFounded
  <2>3. \A i \in Late : ~(i < j)
    BY <2>1, <2>2 DEF OpToRel
  <2>4. PICK i \in 1 .. j : ~old(i)
    OBVIOUS
  <2> HIDE DEF K
  <2>5. j \in 1 .. Len(c) /\ old(j)
    OBVIOUS
  <2> HIDE DEF old, Late
  <2>6. i # j /\ i \in 1 .. j
    BY <2>4, <2>5
  <2>7. j - 1 \in 1 .. Len(c) /\ i \in 1 .. j - 1
    BY <1>1, <2>5, <2>6
  <2>8. j - 1 \notin Late
    BY <1>1, <2>3, <2>5
  <2>9. j - 1 \notin K
    BY <2>4, <2>7 DEF K
  <2>10. ~old(j - 1)
    BY <2>9, <2>7, <2>8 DEF Late
  <2> USE DEF old
  <2>11. logs[c[j - 1]].frame <= logs[c[j]].frame /\ logs[c[j]].frame <= f
    BY <1>1, <1>4, <2>5, <2>7
  <2>12. logs[c[j - 1]].frame \in Nat /\ logs[c[j]].frame \in Nat
    BY <1>4, <2>5, <2>7
  <2>13. QED
    BY <2>10, <2>11, <2>12
<1>6. \A k \in 1 .. Len(c) : old(k) <=> k \in K
  BY <1>5
<1> HIDE DEF K
<1>7. QED
  BY <1>1, <1>2, <1>3, <1>6

(* How many logs the end of a frame takes off a row, and what stays.       *)
Cut(r) == IF currentFrame > MinLogHistory /\ r \in rows THEN Folded(r, currentFrame - MinLogHistory) ELSE 0
Kept(r) == SubSeq(chain[r], Cut(r) + 1, Len(chain[r]))

(* A chain without its first logs.                                         *)
LEMMA KeptFacts ==
  ASSUME Inv, NEW r \in RowIds
  PROVE  /\ Cut(r) \in 0 .. Len(chain[r])
         /\ Kept(r) \in Seq(LogIds) /\ IsInjective(Kept(r))
         /\ Len(Kept(r)) = Len(chain[r]) - Cut(r) /\ DOMAIN Kept(r) = 1 .. Len(Kept(r))
         /\ \A k \in 1 .. Len(Kept(r)) : Kept(r)[k] = chain[r][Cut(r) + k] /\ Cut(r) + k \in 1 .. Len(chain[r])
         /\ \A k \in 1 .. Len(chain[r]) : k > Cut(r) => k - Cut(r) \in 1 .. Len(Kept(r)) /\ Kept(r)[k - Cut(r)] = chain[r][k]
         /\ ToSet(Kept(r)) \subseteq ToSet(chain[r])
         /\ Kept(r) = <<>> <=> Cut(r) = Len(chain[r])
         /\ Kept(r) # <<>> => chain[r] # <<>> /\ LastOf(Kept(r)) = LastOf(chain[r])
<1> DEFINE c == chain[r]
           n == Cut(r)
           s == Kept(r)
<1>1. /\ c \in Seq(LogIds) /\ IsInjective(c) /\ Len(c) \in Nat /\ DOMAIN c = 1 .. Len(c)
      /\ \A k \in 1 .. Len(c) : c[k] \in LogIds
  BY ChainFacts
<1>2. n \in 0 .. Len(c)
  <2>1. CASE currentFrame > MinLogHistory /\ r \in rows
    <3>1. currentFrame - MinLogHistory \in Nat
      BY <2>1, DbTableAssumption DEF Inv, TypeOK
    <3>2. QED
      BY <2>1, <3>1, FoldedFacts DEF Cut
  <2>2. CASE ~(currentFrame > MinLogHistory /\ r \in rows)
    BY <1>1, <2>2 DEF Cut
  <2>3. QED
    BY <2>1, <2>2
<1>3. s = SubSeq(c, n + 1, Len(c))
  BY DEF Kept
<1> HIDE DEF c, n, s
<1>4. /\ s \in Seq(LogIds) /\ Len(s) = Len(c) - n /\ DOMAIN s = 1 .. Len(s)
      /\ \A k \in 1 .. Len(s) : s[k] = c[n + k] /\ n + k \in 1 .. Len(c)
  <2>1. n + 1 \in Int /\ Len(c) \in Int
    BY <1>1, <1>2
  <2>2. s \in Seq(LogIds)
    BY <1>1, <1>2, <1>3
  <2>3. Len(s) = Len(c) - n
    <3>1. Len(SubSeq(c, n + 1, Len(c))) = IF n + 1 <= Len(c) THEN Len(c) - (n + 1) + 1 ELSE 0
      BY <1>1, <2>1
    <3>2. Len(s) = IF n + 1 <= Len(c) THEN Len(c) - (n + 1) + 1 ELSE 0
      BY <1>3, <3>1
    <3>3. \A m \in Nat : \A k \in 0 .. m : (IF k + 1 <= m THEN m - (k + 1) + 1 ELSE 0) = m - k
      OBVIOUS
    <3>4. Len(c) \in Nat
      BY <1>1
    <3>5. QED
      BY <1>2, <3>2, <3>3, <3>4
  <2>4. ASSUME NEW k \in 1 .. Len(s)
        PROVE  s[k] = c[n + k] /\ n + k \in 1 .. Len(c)
    <3>1. k \in 1 .. (Len(c) - n)
      BY <2>3
    <3>2. n + k \in 1 .. Len(c)
      BY <1>1, <1>2, <3>1
    <3>3. QED
      BY <1>1, <1>2, <1>3, <2>1, <3>1, <3>2
  <2>5. QED
    BY <2>2, <2>3, <2>4
<1>5. \A k \in 1 .. Len(c) : k > n => k - n \in 1 .. Len(s) /\ s[k - n] = c[k]
  <2>1. ASSUME NEW k \in 1 .. Len(c), k > n
        PROVE  k - n \in 1 .. Len(s) /\ s[k - n] = c[k]
    <3>1. k - n \in 1 .. Len(s) /\ n + (k - n) = k
      BY <1>1, <1>2, <1>4, <2>1
    <3>2. QED
      BY <1>4, <3>1
  <2>2. QED
    BY <2>1
<1>6. IsInjective(s)
  <2>1. ASSUME NEW j \in 1 .. Len(s), NEW k \in 1 .. Len(s), s[j] = s[k]
        PROVE  j = k
    <3>1. n + j = n + k
      BY <1>1, <1>4, <2>1 DEF IsInjective
    <3>2. QED
      BY <1>2, <3>1
  <2>2. QED
    BY <1>4, <2>1 DEF IsInjective
<1>7. ToSet(s) \subseteq ToSet(c)
  BY <1>1, <1>4 DEF ToSet
<1>8. s = <<>> <=> n = Len(c)
  <2>1. s = <<>> <=> Len(s) = 0
    BY <1>4
  <2>2. Len(s) = Len(c) - n
    BY <1>4
  <2>3. \A m \in Nat : \A k \in 0 .. m : m - k = 0 <=> k = m
    OBVIOUS
  <2>4. Len(c) \in Nat
    BY <1>1
  <2>5. Len(c) - n = 0 <=> n = Len(c)
    BY <1>2, <2>3, <2>4
  <2>6. QED
    BY <2>1, <2>2, <2>5
<1>9. s # <<>> => c # <<>> /\ LastOf(s) = LastOf(c)
  <2>1. SUFFICES ASSUME s # <<>>
                 PROVE  c # <<>> /\ LastOf(s) = LastOf(c)
    OBVIOUS
  <2>2. Len(s) = Len(c) - n /\ n # Len(c)
    BY <1>4, <1>8, <2>1
  <2>3. \A m \in Nat : \A k \in 0 .. m : k # m => m - k \in 1 .. (m - k) /\ k + (m - k) = m /\ m # 0
    OBVIOUS
  <2>4. Len(c) \in Nat
    BY <1>1
  <2>5. Len(c) - n \in 1 .. (Len(c) - n) /\ n + (Len(c) - n) = Len(c) /\ Len(c) # 0
    BY <1>2, <2>2, <2>3, <2>4
  <2>6. s[Len(s)] = c[Len(c)]
    BY <1>4, <2>5, <2>2
  <2>7. c # <<>>
    BY <2>5
  <2>8. QED
    BY <2>1, <2>6, <2>7 DEF LastOf
<1>10. QED
  BY <1>2, <1>4, <1>5, <1>6, <1>7, <1>8, <1>9 DEF c, n, s

(* What the end of a frame does to the two files.                          *)
LEMMA EndFrameEffect ==
  ASSUME Inv, EndFrame
  PROVE  /\ \A t \in Threads : pc[t] = "idle"
         /\ UNCHANGED <<rows, pc, at, tl, arg, out>>
         /\ currentFrame' = currentFrame + 1 /\ currentFrame' \in 1 .. MaxFrame
         /\ logs' \in [LogIds -> Entries]
         /\ \A l \in LogIds : logs'[l].frame = logs[l].frame /\ logs'[l].data = logs[l].data /\ logs'[l].nextLog = logs[l].nextLog
         /\ \A l \in LogIds : logs'[l].previousLog = IF \E q \in rows : Cut(q) \in 1 .. Len(chain[q]) - 1 /\ l = chain[q][Cut(q) + 1]
                                                     THEN NONE ELSE logs[l].previousLog
         /\ \A l \in logRows : l \in logRows' <=> ~ \E q \in rows : \E k \in 1 .. Cut(q) : l = chain[q][k]
         /\ logRows' \subseteq logRows
         /\ master' \in [RowIds -> Masters]
         /\ \A r \in RowIds :
              /\ master'[r].firstLog = IF Kept(r) = <<>> THEN NONE ELSE Kept(r)[1]
              /\ master'[r].lastLog = LastOf(Kept(r))
              /\ master'[r].data = IF Cut(r) = 0 THEN master[r].data ELSE logs[chain[r][Cut(r)]].data
<1> USE DbTableAssumption
<1> DEFINE f == currentFrame - MinLogHistory
<1>1. /\ \A t \in Threads : pc[t] = "idle"
      /\ UNCHANGED <<rows, pc, at, tl, arg, out>>
      /\ currentFrame' = currentFrame + 1 /\ currentFrame' \in 1 .. MaxFrame
      /\ IF currentFrame > MinLogHistory THEN ApplyAll(f) ELSE UNCHANGED <<master, logs, logRows>>
  BY DEF EndFrame, Inv, TypeOK, local
<1>2. /\ rows \subseteq RowIds /\ logRows \subseteq LogIds /\ master \in [RowIds -> Masters] /\ logs \in [LogIds -> Entries]
      /\ currentFrame \in 1 .. MaxFrame
  BY DEF Inv, TypeOK, Masters, Entries, LogOrNone
<1>3. ASSUME NEW r \in RowIds
      PROVE  /\ master[r].firstLog = IF chain[r] = <<>> THEN NONE ELSE chain[r][1]
             /\ master[r].lastLog = LastOf(chain[r])
             /\ r \in rows => \A k \in 1 .. Len(chain[r]) : logs[chain[r][k]].data \in Values
  <2>1. \A t \in Threads : pc[t] \notin {"reset", "finish", "unlist"}
    BY <1>1
  <2>2. master[r].firstLog = IF chain[r] = <<>> THEN NONE ELSE chain[r][1]
    BY DEF Inv, Chained, Spelled
  <2>3. master[r].lastLog = LastOf(chain[r]) /\ (r \in rows /\ chain[r] # <<>> => logs[LastOf(chain[r])].data # Deleted)
    BY <2>1 DEF Inv, Ends
  <2>4. ASSUME r \in rows, NEW k \in 1 .. Len(chain[r])
        PROVE  logs[chain[r][k]].data \in Values
    <3>1. chain[r][k] \in LogIds /\ logs[chain[r][k]].data \in Values \union {Deleted}
      BY <1>2, ChainFacts DEF Entries
    <3>2. chain[r] # <<>> /\ LastOf(chain[r]) = chain[r][Len(chain[r])] /\ Len(chain[r]) \in Nat
      BY <2>4, ChainFacts
    <3>3. k < Len(chain[r]) => logs[chain[r][k]].data # Deleted
      <4>1. InOrder(logs, chain[r], logRows, currentFrame) /\ k \in DOMAIN chain[r]
        BY ChainFacts DEF Inv, Chained
      <4>2. QED
        BY <4>1 DEF InOrder
    <3>4. QED
      BY <2>3, <2>4, <3>1, <3>2, <3>3
  <2>5. QED
    BY <2>2, <2>3, <2>4
<1>4. CASE ~(currentFrame > MinLogHistory)
  <2>1. UNCHANGED <<master, logs, logRows>> /\ \A r \in RowIds : Cut(r) = 0
    BY <1>1, <1>4 DEF Cut
  <2>2. ASSUME NEW r \in RowIds
        PROVE  Kept(r) = chain[r]
    <3>1. chain[r] \in Seq(LogIds) /\ Kept(r) = SubSeq(chain[r], 1, Len(chain[r]))
      BY <2>1, ChainFacts DEF Kept
    <3>2. QED
      BY <3>1
  <2>3. \A q \in rows : ~(Cut(q) \in 1 .. Len(chain[q]) - 1) /\ 1 .. Cut(q) = {}
    BY <1>2, <2>1
  <2>4. \A l \in LogIds : logs'[l].previousLog = IF \E q \in rows : Cut(q) \in 1 .. Len(chain[q]) - 1 /\ l = chain[q][Cut(q) + 1]
                                                 THEN NONE ELSE logs[l].previousLog
    BY <2>1, <2>3
  <2>5. \A l \in logRows : l \in logRows' <=> ~ \E q \in rows : \E k \in 1 .. Cut(q) : l = chain[q][k]
    BY <2>1, <2>3
  <2>6. \A r \in RowIds :
              /\ master'[r].firstLog = IF Kept(r) = <<>> THEN NONE ELSE Kept(r)[1]
              /\ master'[r].lastLog = LastOf(Kept(r))
              /\ master'[r].data = IF Cut(r) = 0 THEN master[r].data ELSE logs[chain[r][Cut(r)]].data
    BY <1>3, <2>1, <2>2
  <2>7. QED
    BY <1>1, <1>2, <2>1, <2>4, <2>5, <2>6
<1>5. CASE currentFrame > MinLogHistory
  <2> DEFINE heads == {Chain(r)[Folded(r, f) + 1] : r \in {q \in rows : Folded(q, f) \in 1 .. Len(Chain(q)) - 1}}
             dropped == UNION {{Chain(r)[k] : k \in 1 .. Folded(r, f)} : r \in rows}
  <2>1. \A r \in rows : Cut(r) = Folded(r, f)
    BY <1>5 DEF Cut
  <2>2. \A r \in RowIds : Chain(r) = chain[r]
    BY DEF chain
  <2>3. /\ master' = [r \in RowIds |-> IF r \in rows /\ Folded(r, f) > 0 THEN Applied(r, Folded(r, f)) ELSE master[r]]
        /\ logRows' = logRows \ dropped
        /\ logs' = [l \in LogIds |-> IF l \in heads THEN [logs[l] EXCEPT !.previousLog = NONE] ELSE logs[l]]
    <3>1. ApplyAll(f)
      BY <1>1, <1>5
    <3> DEFINE n == [r \in rows |-> Folded(r, f)]
    <3>2. /\ master' = [r \in RowIds |-> IF r \in rows /\ n[r] > 0 THEN Applied(r, n[r]) ELSE master[r]]
          /\ logRows' = logRows \ UNION {{Chain(r)[k] : k \in 1 .. n[r]} : r \in rows}
          /\ logs' = [l \in LogIds |->
                        IF l \in {Chain(r)[n[r] + 1] : r \in {q \in rows : n[q] \in 1 .. Len(Chain(q)) - 1}}
                        THEN [logs[l] EXCEPT !.previousLog = NONE] ELSE logs[l]]
      BY <3>1 DEF ApplyAll
    <3>3. \A r \in rows : n[r] = Folded(r, f)
      OBVIOUS
    <3> HIDE DEF n, f
    <3>4. master' = [r \in RowIds |-> IF r \in rows /\ Folded(r, f) > 0 THEN Applied(r, Folded(r, f)) ELSE master[r]]
      BY <3>2, <3>3
    <3>5. UNION {{Chain(r)[k] : k \in 1 .. n[r]} : r \in rows} = dropped
      BY <3>3
    <3>6. {Chain(r)[n[r] + 1] : r \in {q \in rows : n[q] \in 1 .. Len(Chain(q)) - 1}} = heads
      BY <3>3
    <3>7. QED
      BY <3>2, <3>4, <3>5, <3>6
  <2>4. \A l : l \in heads <=> \E q \in rows : Cut(q) \in 1 .. Len(chain[q]) - 1 /\ l = chain[q][Cut(q) + 1]
    BY <1>2, <2>1, <2>2
  <2>5. \A l : l \in dropped <=> \E q \in rows : \E k \in 1 .. Cut(q) : l = chain[q][k]
    BY <1>2, <2>1, <2>2
  <2> HIDE DEF heads, dropped
  <2>6. \A e \in Entries : LET o == [e EXCEPT !.previousLog = NONE]
                           IN o \in Entries /\ o.frame = e.frame /\ o.data = e.data /\ o.nextLog = e.nextLog /\ o.previousLog = NONE
    BY DEF Entries, LogOrNone
  <2>7. \A l \in LogIds : /\ logs'[l] \in Entries
                          /\ logs'[l].frame = logs[l].frame /\ logs'[l].data = logs[l].data /\ logs'[l].nextLog = logs[l].nextLog
                          /\ logs'[l].previousLog = IF l \in heads THEN NONE ELSE logs[l].previousLog
    BY <1>2, <2>3, <2>6
  <2>8. logs' \in [LogIds -> Entries]
    BY <2>3, <2>7
  <2>9. \A l \in logRows : l \in logRows' <=> l \notin dropped
    BY <2>3
  <2>10. ASSUME NEW r \in RowIds
         PROVE  /\ master'[r] \in Masters
                /\ master'[r].firstLog = IF Kept(r) = <<>> THEN NONE ELSE Kept(r)[1]
                /\ master'[r].lastLog = LastOf(Kept(r))
                /\ master'[r].data = IF Cut(r) = 0 THEN master[r].data ELSE logs[chain[r][Cut(r)]].data
    <3> DEFINE n == Cut(r)
               c == chain[r]
               s == Kept(r)
    <3>1. /\ n \in 0 .. Len(c) /\ Len(c) \in Nat /\ c \in Seq(LogIds)
          /\ Len(s) = Len(c) - n
          /\ \A k \in 1 .. Len(s) : s[k] = c[n + k]
          /\ s = <<>> <=> n = Len(c)
          /\ s # <<>> => LastOf(s) = LastOf(c)
          /\ \A k \in 1 .. Len(c) : c[k] \in LogIds
      BY KeptFacts, ChainFacts
    <3>2. s # <<>> => s[1] = c[n + 1] /\ n + 1 \in 1 .. Len(c)
      BY <3>1
    <3>3. s = <<>> => LastOf(s) = NONE
      BY DEF LastOf
    <3>4. CASE n = 0
      <4>1. s = c
        BY <3>1, <3>4 DEF Kept
      <4>2. master'[r] = master[r]
        BY <2>1, <2>3, <3>4
      <4>3. QED
        BY <1>2, <1>3, <3>4, <4>1, <4>2
    <3>5. CASE n # 0
      <4>1. r \in rows /\ n > 0
        BY <3>1, <3>5 DEF Cut
      <4>2. logs[c[n]].data \in Values /\ n \in 1 .. Len(c)
        BY <1>3, <3>1, <4>1
      <4>3. master'[r] = [master[r] EXCEPT !.firstLog = IF n = Len(c) THEN NONE ELSE c[n + 1],
                                          !.lastLog  = IF n = Len(c) THEN NONE ELSE @,
                                          !.data = logs[c[n]].data]
        BY <2>1, <2>2, <2>3, <4>1 DEF Applied
      <4> DEFINE a == IF n = Len(c) THEN NONE ELSE c[n + 1]
                 b == IF n = Len(c) THEN NONE ELSE master[r].lastLog
                 d == logs[c[n]].data
      <4>4. a \in LogOrNone /\ b \in LogOrNone /\ d \in Values
        <5>1. a \in LogOrNone
          BY <3>1, <3>2 DEF LogOrNone
        <5>2. b \in LogOrNone
          BY <1>2 DEF LogOrNone, Masters
        <5>3. QED
          BY <4>2, <5>1, <5>2
      <4>5. master'[r] = [master[r] EXCEPT !.firstLog = a, !.lastLog = b, !.data = d]
        BY <4>3
      <4> HIDE DEF a, b, d
      <4>6. \A m \in Masters : LET o == [m EXCEPT !.firstLog = a, !.lastLog = b, !.data = d]
                               IN o \in Masters /\ o.firstLog = a /\ o.lastLog = b /\ o.data = d
        BY <4>4 DEF Masters
      <4>7. master'[r] \in Masters /\ master'[r].firstLog = a /\ master'[r].lastLog = b /\ master'[r].data = d
        BY <1>2, <4>5, <4>6
      <4>8. a = IF s = <<>> THEN NONE ELSE s[1]
        BY <3>1, <3>2 DEF a
      <4>9. b = LastOf(s)
        BY <1>3, <3>1, <3>3 DEF b
      <4>10. QED
        BY <3>5, <4>7, <4>8, <4>9 DEF d
    <3>6. QED
      BY <3>4, <3>5
  <2>11. master' \in [RowIds -> Masters]
    BY <2>3, <2>10
  <2>12. logRows' \subseteq logRows
    BY <2>3
  <2>13. QED
    BY <1>1, <2>4, <2>5, <2>7, <2>8, <2>9, <2>10, <2>11, <2>12
<1>6. QED
  BY <1>4, <1>5

(* The chains of the next frame.                                           *)
LEMMA ChainsCut ==
  ASSUME Inv, EndFrame
  PROVE  chain' = [r \in RowIds |-> Kept(r)] /\ \A r \in RowIds : Spelled(master'[r].firstLog, logs', Kept(r))
<1> DEFINE f == [r \in RowIds |-> Kept(r)]
<1>1. ASSUME NEW r \in RowIds
      PROVE  Spelled(master'[r].firstLog, logs', Kept(r))
  <2>1. master'[r].firstLog = IF Kept(r) = <<>> THEN NONE ELSE Kept(r)[1]
    BY EndFrameEffect
  <2>2. Kept(r) \in Seq(LogIds) /\ IsInjective(Kept(r)) /\ DOMAIN Kept(r) = 1 .. Len(Kept(r))
    BY KeptFacts
  <2>3. ASSUME NEW k \in 1 .. Len(Kept(r))
        PROVE  logs'[Kept(r)[k]].nextLog = IF k = Len(Kept(r)) THEN NONE ELSE Kept(r)[k + 1]
    <3>1. /\ Kept(r)[k] = chain[r][Cut(r) + k] /\ Cut(r) + k \in 1 .. Len(chain[r])
          /\ Cut(r) \in 0 .. Len(chain[r]) /\ Len(Kept(r)) = Len(chain[r]) - Cut(r)
          /\ k # Len(Kept(r)) => k + 1 \in 1 .. Len(Kept(r))
      BY KeptFacts
    <3>2. k # Len(Kept(r)) => Kept(r)[k + 1] = chain[r][Cut(r) + (k + 1)]
      BY <3>1, KeptFacts
    <3>3. logs[chain[r][Cut(r) + k]].nextLog = IF Cut(r) + k = Len(chain[r]) THEN NONE ELSE chain[r][Cut(r) + k + 1]
      <4>1. Spelled(master[r].firstLog, logs, chain[r]) /\ Cut(r) + k \in DOMAIN chain[r]
        BY <3>1, ChainFacts DEF Inv, Chained
      <4>2. QED
        BY <4>1 DEF Spelled
    <3>4. logs'[Kept(r)[k]].nextLog = logs[Kept(r)[k]].nextLog
      <4>1. Kept(r)[k] \in LogIds
        BY <3>1, ChainFacts
      <4>2. QED
        BY <4>1, EndFrameEffect
    <3>5. Len(chain[r]) \in Nat
      BY ChainFacts
    <3>6. \A m \in Nat : \A n \in 0 .. m : (n + k = m <=> k = m - n) /\ n + (k + 1) = n + k + 1
      OBVIOUS
    <3>7. (Cut(r) + k = Len(chain[r]) <=> k = Len(chain[r]) - Cut(r)) /\ Cut(r) + (k + 1) = Cut(r) + k + 1
      BY <3>1, <3>5, <3>6
    <3>8. QED
      BY <3>1, <3>2, <3>3, <3>4, <3>7
  <2>4. QED
    BY <2>1, <2>2, <2>3 DEF Spelled
<1>2. f \in [RowIds -> Seq(LogIds)]
  BY KeptFacts
<1>3. QED
  BY <1>1, <1>2, Respelled

(* The logs that are old enough are applied and leave their chains.        *)
LEMMA EndFrameStep ==
  ASSUME Inv, EndFrame
  PROVE  Inv'
<1> USE DbTableAssumption
<1>1. /\ \A t \in Threads : pc'[t] = "idle"
      /\ UNCHANGED <<rows, pc, at, tl, arg, out>>
      /\ currentFrame' = currentFrame + 1 /\ currentFrame' \in 1 .. MaxFrame /\ currentFrame \in 1 .. MaxFrame
  BY EndFrameEffect DEF Inv, TypeOK
<1>2. \A r \in RowIds : chain'[r] = Kept(r)
  BY ChainsCut
<1>3. logs' \in [LogIds -> Entries] /\ master' \in [RowIds -> Masters] /\ logRows' \subseteq logRows
      /\ logRows \subseteq LogIds /\ rows \subseteq RowIds
  BY EndFrameEffect DEF Inv, TypeOK
<1>4. \A l \in LogIds : logs'[l].frame = logs[l].frame /\ logs'[l].data = logs[l].data /\ logs'[l].nextLog = logs[l].nextLog
  BY EndFrameEffect
<1>5. \A r \in RowIds : /\ master'[r].firstLog = IF Kept(r) = <<>> THEN NONE ELSE Kept(r)[1]
                        /\ master'[r].lastLog = LastOf(Kept(r))
  BY EndFrameEffect
<1>6. TypeOK'
  BY <1>1, <1>3 DEF Inv, TypeOK, Masters, Entries, LogOrNone
<1>7. ASSUME NEW r \in RowIds, NEW k \in 1 .. Len(chain[r]), NEW q \in RowIds, NEW j \in 1 .. Len(chain[q]), chain[r][k] = chain[q][j]
      PROVE  r = q /\ k = j
  <2>1. chain[r][k] \in ToSet(chain[r]) /\ chain[q][j] \in ToSet(chain[q]) /\ IsInjective(chain[r])
        /\ DOMAIN chain[r] = 1 .. Len(chain[r])
    BY ChainFacts
  <2>2. r = q
    BY <1>7, <2>1 DEF Inv, Chained
  <2>3. QED
    BY <1>7, <2>1, <2>2 DEF IsInjective
<1>8. ASSUME NEW r \in RowIds, NEW k \in 1 .. Len(chain[r])
      PROVE  /\ chain[r][k] \in LogIds /\ chain[r][k] \in logRows
             /\ chain[r][k] \in logRows' <=> k > Cut(r)
             /\ chain[r][k] \in ToSet(chain'[r]) <=> k > Cut(r)
  <2>1. chain[r][k] \in LogIds /\ chain[r][k] \in logRows
    BY ChainFacts
  <2>2. chain[r][k] \in logRows' <=> ~ \E q \in rows : \E j \in 1 .. Cut(q) : chain[r][k] = chain[q][j]
    BY <2>1, EndFrameEffect
  <2>3. Cut(r) \in 0 .. Len(chain[r]) /\ Len(chain[r]) \in Nat
    BY KeptFacts, ChainFacts
  <2>4. ASSUME NEW q \in rows, NEW j \in 1 .. Cut(q), chain[r][k] = chain[q][j]
        PROVE  k <= Cut(r)
    <3>1. q \in RowIds /\ Cut(q) \in 0 .. Len(chain[q]) /\ Len(chain[q]) \in Nat
      BY <1>3, KeptFacts, ChainFacts
    <3>2. j \in 1 .. Len(chain[q])
      BY <3>1
    <3>3. r = q /\ k = j
      BY <1>7, <2>4, <3>1, <3>2
    <3>4. QED
      BY <3>3
  <2>5. ASSUME k <= Cut(r)
        PROVE  \E q \in rows : \E j \in 1 .. Cut(q) : chain[r][k] = chain[q][j]
    <3>1. r \in rows
      BY <2>3, <2>5 DEF Cut
    <3>2. k \in 1 .. Cut(r)
      BY <2>3, <2>5
    <3>3. QED
      BY <3>1, <3>2
  <2>6. chain[r][k] \in logRows' <=> k > Cut(r)
    BY <2>2, <2>3, <2>4, <2>5
  <2>7. k > Cut(r) => chain[r][k] \in ToSet(Kept(r))
    <3>1. k > Cut(r) => k - Cut(r) \in DOMAIN Kept(r) /\ Kept(r)[k - Cut(r)] = chain[r][k]
      BY KeptFacts
    <3>2. QED
      BY <3>1 DEF ToSet
  <2>8. ASSUME chain[r][k] \in ToSet(Kept(r))
        PROVE  k > Cut(r)
    <3>1. PICK i \in 1 .. Len(Kept(r)) : Kept(r)[i] = chain[r][k]
      BY <2>8, KeptFacts DEF ToSet
    <3>2. Kept(r)[i] = chain[r][Cut(r) + i] /\ Cut(r) + i \in 1 .. Len(chain[r])
      BY KeptFacts
    <3>3. k = Cut(r) + i
      BY <1>7, <3>1, <3>2
    <3>4. QED
      BY <2>3, <3>3
  <2>9. QED
    BY <1>2, <2>1, <2>6, <2>7, <2>8
<1>9. Chained'
  <2>1. \A r \in RowIds : Spelled(master'[r].firstLog, logs', chain'[r])
    BY <1>2, ChainsCut
  <2>2. ASSUME NEW r \in RowIds, NEW k \in 1 .. Len(Kept(r))
        PROVE  /\ Kept(r)[k] \in logRows'
               /\ logs'[Kept(r)[k]].previousLog = IF k = 1 THEN NONE ELSE Kept(r)[k - 1]
               /\ logs'[Kept(r)[k]].frame \in 1 .. currentFrame'
               /\ k > 1 => logs'[Kept(r)[k - 1]].frame <= logs'[Kept(r)[k]].frame
               /\ k < Len(Kept(r)) => logs'[Kept(r)[k]].data # Deleted
    <3> DEFINE n == Cut(r)
               c == chain[r]
    <3>1. /\ n \in 0 .. Len(c) /\ Len(c) \in Nat /\ DOMAIN c = 1 .. Len(c) /\ Len(Kept(r)) = Len(c) - n
          /\ Kept(r)[k] = c[n + k] /\ n + k \in 1 .. Len(c)
      BY KeptFacts, ChainFacts
    <3>2. k > 1 => Kept(r)[k - 1] = c[(n + k) - 1] /\ (n + k) - 1 \in 1 .. Len(c)
      <4>1. k > 1 => k - 1 \in 1 .. Len(Kept(r))
        BY <3>1
      <4>2. k > 1 => Kept(r)[k - 1] = c[n + (k - 1)] /\ n + (k - 1) \in 1 .. Len(c)
        BY <4>1, KeptFacts
      <4>3. n + (k - 1) = (n + k) - 1
        BY <3>1
      <4>4. QED
        BY <4>2, <4>3
    <3> HIDE DEF n, c
    <3>3. n + k > n /\ (k < Len(Kept(r)) => n + k < Len(c)) /\ (k > 1 => n + k > 1) /\ (k = 1 => n + k = n + 1)
      <4>1. \A m \in Nat : \A i \in 0 .. m : i + k > i /\ (k < m - i => i + k < m) /\ (k > 1 => i + k > 1)
        OBVIOUS
      <4>2. QED
        BY <3>1, <4>1
    <3>4. /\ c[n + k] \in LogIds /\ c[n + k] \in logRows /\ c[n + k] \in logRows'
          /\ k > 1 => c[(n + k) - 1] \in LogIds
      BY <1>8, <3>1, <3>2, <3>3 DEF c, n
    <3>5. /\ logs[c[n + k]].previousLog = IF n + k = 1 THEN NONE ELSE c[(n + k) - 1]
          /\ logs[c[n + k]].frame \in 1 .. currentFrame
          /\ n + k > 1 => logs[c[(n + k) - 1]].frame <= logs[c[n + k]].frame
          /\ n + k < Len(c) => logs[c[n + k]].data # Deleted
      <4>1. InOrder(logs, c, logRows, currentFrame)
        BY DEF Inv, Chained, c
      <4>2. QED
        BY <3>1, <4>1 DEF InOrder
    <3>6. logs'[c[n + k]].previousLog = IF k = 1 THEN NONE ELSE c[(n + k) - 1]
      <4> DEFINE head == \E q \in rows : Cut(q) \in 1 .. Len(chain[q]) - 1 /\ c[n + k] = chain[q][Cut(q) + 1]
      <4>1. logs'[c[n + k]].previousLog = IF head THEN NONE ELSE logs[c[n + k]].previousLog
        BY <3>4, EndFrameEffect
      <4>2. ASSUME head
            PROVE  k = 1
        <5>1. PICK q \in rows : Cut(q) \in 1 .. Len(chain[q]) - 1 /\ c[n + k] = chain[q][Cut(q) + 1]
          BY <4>2
        <5>2. q \in RowIds /\ Cut(q) + 1 \in 1 .. Len(chain[q])
          BY <1>3, <5>1, ChainFacts
        <5>3. n + k \in 1 .. Len(chain[r]) /\ chain[r][n + k] = chain[q][Cut(q) + 1]
          BY <3>1, <5>1 DEF c
        <5>4. \A i \in 1 .. Len(chain[r]), j \in 1 .. Len(chain[q]) : chain[r][i] = chain[q][j] => r = q /\ i = j
          BY <1>7, <5>2
        <5>5. r = q /\ n + k = Cut(q) + 1
          BY <5>2, <5>3, <5>4
        <5>6. n + k = n + 1
          BY <5>5 DEF n
        <5>7. QED
          BY <3>1, <5>6
      <4>3. ASSUME k = 1, n # 0
            PROVE  head
        <5>1. r \in rows
          BY <4>3 DEF n, Cut
        <5>2. n \in 1 .. Len(c) - 1
          BY <3>1, <4>3
        <5>3. QED
          BY <4>3, <5>1, <5>2 DEF n, c
      <4> HIDE DEF head
      <4>4. CASE k = 1 /\ n # 0
        BY <4>1, <4>3, <4>4
      <4>5. CASE k = 1 /\ n = 0
        BY <3>5, <4>1, <4>5
      <4>6. CASE k # 1
        <5>1. n + k # 1
          BY <3>1, <4>6
        <5>2. QED
          BY <3>5, <4>1, <4>2, <4>6, <5>1
      <4>7. QED
        BY <4>4, <4>5, <4>6
    <3>7. logs'[c[n + k]].frame \in 1 .. currentFrame'
      BY <1>1, <1>4, <3>4, <3>5
    <3>8. k > 1 => logs'[c[(n + k) - 1]].frame <= logs'[c[n + k]].frame
      BY <1>4, <3>3, <3>4, <3>5
    <3>9. k < Len(Kept(r)) => logs'[c[n + k]].data # Deleted
      BY <1>4, <3>3, <3>4, <3>5
    <3>10. k # 1 => k > 1
      OBVIOUS
    <3>11. QED
      BY <3>1, <3>2, <3>4, <3>6, <3>7, <3>8, <3>9, <3>10
  <2>3. ASSUME NEW r \in RowIds
        PROVE  InOrder(logs', chain'[r], logRows', currentFrame')
    <3>1. DOMAIN Kept(r) = 1 .. Len(Kept(r))
      BY KeptFacts
    <3>2. InOrder(logs', Kept(r), logRows', currentFrame')
      BY <2>2, <3>1 DEF InOrder
    <3>3. QED
      BY <1>2, <3>2
  <2>4. ASSUME NEW p \in RowIds, NEW q \in RowIds, p # q
        PROVE  ToSet(chain'[p]) \intersect ToSet(chain'[q]) = {}
    <3>1. ToSet(chain[p]) \intersect ToSet(chain[q]) = {}
      BY <2>4 DEF Inv, Chained
    <3>2. ToSet(Kept(p)) \subseteq ToSet(chain[p]) /\ ToSet(Kept(q)) \subseteq ToSet(chain[q])
      BY KeptFacts
    <3>3. QED
      BY <1>2, <3>1, <3>2
  <2>5. QED
    BY <2>1, <2>3, <2>4 DEF Chained
<1>10. Ends'
  <2>1. ASSUME NEW r \in RowIds
        PROVE  /\ master'[r].lastLog = LastOf(chain'[r])
               /\ r \in rows' /\ chain'[r] # <<>> => logs'[LastOf(chain'[r])].data # Deleted
    <3>1. Kept(r) # <<>> => chain[r] # <<>> /\ LastOf(Kept(r)) = LastOf(chain[r])
      BY KeptFacts
    <3>2. \A t \in Threads : pc[t] \notin {"reset", "finish", "unlist"}
      BY <1>1
    <3>3. r \in rows /\ chain[r] # <<>> => logs[LastOf(chain[r])].data # Deleted
      BY <3>2 DEF Inv, Ends
    <3>4. chain[r] # <<>> => LastOf(chain[r]) \in LogIds
      BY ChainFacts
    <3>5. QED
      BY <1>1, <1>2, <1>4, <1>5, <3>1, <3>3, <3>4
  <2>2. QED
    BY <2>1 DEF Ends
<1>11. OneWriter' /\ InHand' /\ Readers'
  BY <1>1 DEF OneWriter, InHand, Readers, Writing
<1>12. Closed'
  <2>1. ASSUME NEW l \in logRows', logs'[l].nextLog # NONE
        PROVE  /\ logs'[l].nextLog \in logRows'
               /\ \A r \in RowIds : logs'[l].nextLog \in ToSet(chain'[r]) => l \in ToSet(chain'[r])
    <3> DEFINE x == logs[l].nextLog
    <3>1. l \in logRows /\ l \in LogIds /\ logs'[l].nextLog = x /\ x # NONE
      BY <1>3, <1>4, <2>1
    <3> HIDE DEF x
    <3>2. /\ x \in logRows
          /\ \A r \in RowIds : x \in ToSet(chain[r]) => l \in ToSet(chain[r])
      BY <3>1 DEF Inv, Closed, x
    <3>3. ASSUME NEW r \in RowIds, x \in ToSet(chain[r])
          PROVE  \E i \in 1 .. Len(chain[r]) : l = chain[r][i] /\ i > Cut(r) /\ i + 1 \in 1 .. Len(chain[r]) /\ x = chain[r][i + 1]
      <4>1. l \in ToSet(chain[r])
        BY <3>2, <3>3
      <4>2. PICK i \in 1 .. Len(chain[r]) : l = chain[r][i]
        BY <4>1, ChainFacts DEF ToSet
      <4>3. i > Cut(r)
        BY <1>8, <2>1, <4>2
      <4>4. x = IF i = Len(chain[r]) THEN NONE ELSE chain[r][i + 1]
        <5>1. Spelled(master[r].firstLog, logs, chain[r]) /\ DOMAIN chain[r] = 1 .. Len(chain[r])
          BY ChainFacts DEF Inv, Chained
        <5>2. QED
          BY <4>2, <5>1 DEF Spelled, x
      <4>5. i + 1 \in 1 .. Len(chain[r])
        BY <3>1, <4>4, ChainFacts
      <4>6. QED
        BY <3>1, <4>2, <4>3, <4>4, <4>5
    <3>4. x \in logRows'
      <4>1. ASSUME x \notin logRows'
            PROVE  FALSE
        <5>1. x \in LogIds
          BY <1>3, <3>2
        <5>2. PICK q \in rows : \E j \in 1 .. Cut(q) : x = chain[q][j]
          BY <3>2, <4>1, EndFrameEffect
        <5>3. PICK j \in 1 .. Cut(q) : x = chain[q][j]
          BY <5>2
        <5>4. q \in RowIds /\ j \in 1 .. Len(chain[q]) /\ Cut(q) \in 0 .. Len(chain[q])
          <6>1. q \in RowIds
            BY <1>3
          <6>2. Cut(q) \in 0 .. Len(chain[q]) /\ Len(chain[q]) \in Nat
            BY <6>1, KeptFacts, ChainFacts
          <6>3. QED
            BY <6>1, <6>2
        <5>5. x \in ToSet(chain[q])
          BY <5>3, <5>4, ChainFacts
        <5>6. PICK i \in 1 .. Len(chain[q]) : i > Cut(q) /\ i + 1 \in 1 .. Len(chain[q]) /\ x = chain[q][i + 1]
          BY <3>3, <5>4, <5>5
        <5>7. i + 1 = j
          BY <1>7, <5>3, <5>4, <5>6
        <5>8. QED
          BY <5>4, <5>6, <5>7
      <4>2. QED
        BY <4>1
    <3>5. ASSUME NEW r \in RowIds, x \in ToSet(chain'[r])
          PROVE  l \in ToSet(chain'[r])
      <4>1. x \in ToSet(chain[r])
        BY <1>2, <3>5, KeptFacts
      <4>2. PICK i \in 1 .. Len(chain[r]) : l = chain[r][i] /\ i > Cut(r)
        BY <3>3, <4>1
      <4>3. QED
        BY <1>8, <4>2
    <3>6. QED
      BY <3>1, <3>4, <3>5
  <2>2. QED
    BY <2>1 DEF Closed
<1>13. QED
  BY <1>6, <1>9, <1>10, <1>11, <1>12 DEF Inv

-----------------------------------------------------------------------------
(* Every step keeps the invariant.                                         *)
LEMMA StepHolds == Inv /\ [Next]_vars => Inv'
<1> SUFFICES ASSUME Inv, [Next]_vars
             PROVE  Inv'
  OBVIOUS
<1>1. ASSUME NEW t \in Threads, NEW r \in RowIds,
             (\E d \in Values : Allocate(t, r, d) \/ Store(t, r, d)) \/ Free(t, r)
      PROVE  Inv'
  BY <1>1, CallStep
<1>2. ASSUME NEW t \in Threads,
             (\E r \in RowIds : readCurrent(t, r) \/ readCommitted(t, r)) \/ Walk(t) \/ LoadReturns(t)
      PROVE  Inv'
  BY <1>2, LoadStep
<1>3. ASSUME NEW t \in Threads, Reset(t)
      PROVE  Inv'
  BY <1>3, ResetStep
<1>4. ASSUME NEW t \in Threads, Append0(t)
      PROVE  Inv'
  BY <1>4, AppendStep
<1>5. ASSUME NEW t \in Threads, Link(t)
      PROVE  Inv'
  BY <1>5, LinkStep
<1>6. ASSUME NEW t \in Threads, Finish(t) \/ Unlist(t)
      PROVE  Inv'
  BY <1>6, FinishStep
<1>7. CASE EndFrame
  BY <1>7, EndFrameStep
<1>8. CASE UNCHANGED vars
  <2>1. chain' = chain
    BY <1>8, Unchained DEF vars
  <2>2. TypeOK' /\ OneWriter'
    BY <1>8 DEF vars, Inv, TypeOK, OneWriter
  <2>3. Chained' /\ Closed'
    BY <1>8, <2>1 DEF vars, Inv, Chained, Closed
  <2>4. Ends' /\ InHand' /\ Readers'
    BY <1>8, <2>1 DEF vars, Inv, Ends, InHand, Readers
  <2>5. QED
    BY <2>2, <2>3, <2>4 DEF Inv
<1>9. QED
  BY <1>1, <1>2, <1>3, <1>4, <1>5, <1>6, <1>7, <1>8 DEF Next

(* The invariant.                                                          *)
LEMMA InvHolds == Spec => []Inv
<1>1. Init => Inv
  BY InitHolds
<1>2. Inv /\ [Next]_vars => Inv'
  BY StepHolds
<1>3. QED
  BY <1>1, <1>2, PTL DEF Spec

(* What the invariant says of a row nobody writes.                         *)
LEMMA InvSound == Inv => ChainsSound
<1> SUFFICES ASSUME Inv
             PROVE  ChainsSound
  OBVIOUS
<1>1. ASSUME NEW r \in RowIds, WritersOf(r) = {}
      PROVE  Sound(r)
  <2> DEFINE c == chain[r]
  <2>1. Chain(r) = c
    BY DEF chain
  <2>2. /\ c \in Seq(LogIds) /\ Len(c) \in Nat /\ DOMAIN c = 1 .. Len(c) /\ ToSet(c) \subseteq logRows
        /\ c # <<>> => LastOf(c) = c[Len(c)] /\ LastOf(c) \in LogIds /\ Len(c) # 0
    BY ChainFacts
  <2>3. master[r].lastLog = LastOf(c)
    <3>1. \A t \in Threads : at[t] = r => pc[t] # "finish"
      BY <1>1 DEF WritersOf, Writing
    <3>2. QED
      BY <3>1 DEF Inv, Ends
  <2>4. InOrder(logs, c, logRows, currentFrame)
    BY DEF Inv, Chained
  <2> HIDE DEF c
  <2>5. (c = <<>>) = (master[r].lastLog = NONE)
    <3>1. c = <<>> => LastOf(c) = NONE
      BY DEF LastOf
    <3>2. QED
      BY <2>2, <2>3, <3>1, DbTableAssumption
  <2>6. c # <<>> => Last(c) = master[r].lastLog
    BY <2>2, <2>3 DEF Last
  <2>7. \A k \in DOMAIN c :
          /\ logs[c[k]].previousLog = IF k = 1 THEN NONE ELSE c[k - 1]
          /\ k > 1 => logs[c[k - 1]].frame <= logs[c[k]].frame
          /\ k < Len(c) => logs[c[k]].data # Deleted
    BY <2>4 DEF InOrder
  <2>8. QED
    BY <2>1, <2>2, <2>5, <2>6, <2>7 DEF Sound
<1>2. \A r \in RowIds : \A q \in RowIds \ {r} : ToSet(Chain(r)) \intersect ToSet(Chain(q)) = {}
  <2>1. \A r \in RowIds : chain[r] = Chain(r)
    BY DEF chain
  <2>2. QED
    BY <2>1 DEF Inv, Chained
<1>3. \A t \in Threads : pc[t] = "walk" => tl[t] \in logRows
  BY DEF Inv, Readers
<1>4. QED
  BY <1>1, <1>2, <1>3 DEF ChainsSound, Inv

(* A row nobody writes has a chain of allocated logs that ends at lastLog, *)
(* reads the same backwards, never goes back in time and has a delete log  *)
(* only at its end; no log is on two chains; and a load never stands on a  *)
(* log that was freed: what dbTable's load, appendLog and applyLogs keep   *)
(* between them, for any number of threads, rows, logs and frames.         *)
THEOREM ChainsStaySound == Spec => []ChainsSound
<1>1. Spec => []Inv
  BY InvHolds
<1>2. Inv => ChainsSound
  BY InvSound
<1>3. QED
  BY <1>1, <1>2, PTL

-----------------------------------------------------------------------------
(* A chain as the abstract table has it.                                   *)
LEMMA TheLogsOf ==
  ASSUME Inv, NEW r \in RowIds
  PROVE  /\ TheLogs(r) = [k \in 1 .. Len(chain[r]) |-> [frame |-> logs[chain[r][k]].frame, data |-> logs[chain[r][k]].data]]
         /\ DOMAIN TheLogs(r) = 1 .. Len(chain[r]) /\ Len(TheLogs(r)) = Len(chain[r])
         /\ TheLogs(r) = <<>> <=> chain[r] = <<>>
<1>1. TheLogs(r) = [k \in 1 .. Len(chain[r]) |-> [frame |-> logs[chain[r][k]].frame, data |-> logs[chain[r][k]].data]]
  <2>1. Chain(r) = chain[r] /\ DOMAIN chain[r] = 1 .. Len(chain[r])
    BY ChainFacts DEF chain
  <2>2. QED
    BY <2>1 DEF TheLogs
<1>2. Len(chain[r]) \in Nat /\ (chain[r] = <<>> <=> Len(chain[r]) = 0)
  BY ChainFacts
<1>3. DOMAIN TheLogs(r) = 1 .. Len(chain[r])
  BY <1>1
<1>4. Len(TheLogs(r)) = Len(chain[r])
  BY <1>1, <1>2
<1>5. TheLogs(r) = <<>> <=> Len(chain[r]) = 0
  BY <1>1, <1>2, <1>3
<1>6. QED
  BY <1>1, <1>2, <1>3, <1>4, <1>5

(* A walk ends on the last log that is not newer than its frame.           *)
LEMMA WalkEnds ==
  ASSUME Inv, NEW t \in Threads, Walk(t), LoadEnds(t)!1
  PROVE  out'[t] = AsOf(at[t], arg[t])
<1> DEFINE r == at[t]
           c == chain[r]
           f == arg[t]
           L == TheLogs(r)
           upto == {k \in DOMAIN L : \A j \in 2 .. k : L[j].frame <= f}
<1>1. /\ r \in RowIds /\ f \in Nat /\ tl[t] \in logRows
      /\ \A p \in DOMAIN c : c[p] = tl[t] => \A j \in 2 .. p : logs[c[j]].frame <= f
  BY DEF Walk, Inv, Readers
<1>2. /\ Len(c) \in Nat /\ DOMAIN c = 1 .. Len(c) /\ \A k \in 1 .. Len(c) : c[k] \in LogIds
      /\ \A k \in 1 .. Len(c) : logs[c[k]].nextLog = IF k = Len(c) THEN NONE ELSE c[k + 1]
      /\ \A k \in 1 .. Len(c) : logs[c[k]].frame \in Nat
  <2>1. Spelled(master[r].firstLog, logs, c) /\ InOrder(logs, c, logRows, currentFrame) /\ currentFrame \in Nat
    BY <1>1 DEF Inv, Chained, TypeOK
  <2>2. Len(c) \in Nat /\ DOMAIN c = 1 .. Len(c) /\ \A k \in 1 .. Len(c) : c[k] \in LogIds
    BY <1>1, ChainFacts
  <2>3. \A k \in 1 .. Len(c) : logs[c[k]].nextLog = IF k = Len(c) THEN NONE ELSE c[k + 1]
    BY <2>1, <2>2 DEF Spelled
  <2>4. \A k \in 1 .. Len(c) : logs[c[k]].frame \in 1 .. currentFrame
    BY <2>1, <2>2 DEF InOrder
  <2>5. \A k \in 1 .. Len(c) : logs[c[k]].frame \in Nat
    BY <2>1, <2>4
  <2>6. QED
    BY <2>2, <2>3, <2>5
<1>3. DOMAIN L = 1 .. Len(c) /\ \A k \in 1 .. Len(c) : L[k].frame = logs[c[k]].frame /\ L[k].data = logs[c[k]].data
  BY <1>1, TheLogsOf
<1>4. PICK p \in 1 .. Len(c) : c[p] = tl[t]
  <2>1. tl[t] \in ToSet(c)
    BY <1>1 DEF chain
  <2>2. QED
    BY <1>2, <2>1 DEF ToSet
<1>5. /\ out'[t] = logs[c[p]].data
      /\ p < Len(c) => ~(logs[c[p + 1]].frame <= f)
  <2> DEFINE next == logs[tl[t]].nextLog
  <2>1. pc[t] = "walk" /\ pc'[t] = "loaded" /\ out \in [Threads -> Values \union {Deleted, NONE}] /\ pc \in [Threads -> Writing \union {"idle", "walk", "loaded"}]
    BY DEF Inv, TypeOK
  <2>2. ~(next # NONE /\ logs[next].frame <= f)
    BY <2>1 DEF Walk
  <2>3. out'[t] = logs[tl[t]].data
    BY <2>1, <2>2 DEF Walk
  <2>4. p < Len(c) => next = c[p + 1] /\ c[p + 1] \in LogIds
    BY <1>2, <1>4
  <2>5. QED
    BY <1>4, <2>2, <2>3, <2>4, DbTableAssumption
<1>6. p \in upto
  <2>1. p \in DOMAIN L
    BY <1>3
  <2>2. ASSUME NEW j \in 2 .. p
        PROVE  L[j].frame <= f
    <3>1. p \in DOMAIN c /\ j \in 1 .. Len(c)
      BY <1>2
    <3>2. \A i \in 2 .. p : logs[c[i]].frame <= f
      BY <1>1, <1>4, <3>1
    <3>3. QED
      BY <1>3, <3>1, <3>2
  <2>3. QED
    BY <2>1, <2>2
<1>7. \A j \in upto : j <= p
  <2>1. ASSUME NEW k \in upto, ~(k <= p)
        PROVE  FALSE
    <3>1. k \in 1 .. Len(c) /\ p + 1 \in 2 .. k /\ p < Len(c) /\ p + 1 \in 1 .. Len(c)
      BY <1>2, <1>3, <1>4, <2>1
    <3>2. L[p + 1].frame <= f
      BY <3>1
    <3>3. QED
      BY <1>3, <1>5, <3>1, <3>2
  <2>2. QED
    BY <2>1
<1>8. (CHOOSE k \in upto : \A j \in upto : j <= k) = p
  <2>1. upto \subseteq Nat
    BY <1>2, <1>3
  <2> HIDE DEF upto
  <2>2. \A k \in upto : (\A j \in upto : j <= k) => k = p
    BY <1>6, <1>7, <2>1
  <2>3. QED
    BY <1>6, <1>7, <2>2
<1>9. L # <<>>
  BY <1>3, <1>4
<1>10. AsOf(r, f) = L[CHOOSE k \in upto : \A j \in upto : j <= k].data
  BY <1>9 DEF AsOf, Table!AsOf
<1>11. QED
  BY <1>3, <1>4, <1>5, <1>8, <1>10

(* A load that walks ends on what the table holds for its frame at that    *)
(* moment, however many logs were appended on the way (dbTable.hpp:179,    *)
(* 184-185): the logs it passed were not newer, and the next one is.       *)
THEOREM LoadsSeeOneState == Spec => LoadsAtomic
<1>1. ASSUME Inv, [Next]_vars
      PROVE  [\A t \in Threads : LoadEnds(t)]_vars
  <2> SUFFICES ASSUME NEW t \in Threads, LoadEnds(t)!1
               PROVE  out'[t] = AsOf(at[t], arg[t])
    BY DEF LoadEnds
  <2>1. pc[t] = "walk" /\ pc'[t] = "loaded"
    OBVIOUS
  <2>2. Walk(t)
    <3>1. pc \in [Threads -> Writing \union {"idle", "walk", "loaded"}]
      BY <1>1 DEF Inv, TypeOK
    <3>2. ASSUME NEW u \in Threads, NEW r \in RowIds,
                 (\E d \in Values : Allocate(u, r, d) \/ Store(u, r, d)) \/ Free(u, r) \/ readCurrent(u, r) \/ readCommitted(u, r)
          PROVE  FALSE
      BY <2>1, <3>1, <3>2 DEF Allocate, Store, Free, readCurrent, readCommitted, Load, Call, Goto
    <3>3. ASSUME NEW u \in Threads, Reset(u) \/ Append0(u) \/ Link(u)
          PROVE  FALSE
      BY <2>1, <3>1, <3>3 DEF Reset, Append0, Link, Return, Goto
    <3>4. ASSUME NEW u \in Threads, Finish(u) \/ Unlist(u) \/ LoadReturns(u)
          PROVE  FALSE
      BY <2>1, <3>1, <3>4 DEF Finish, Unlist, LoadReturns, Return, Goto
    <3>5. ASSUME NEW u \in Threads, Walk(u)
          PROVE  u = t
      BY <2>1, <3>1, <3>5 DEF Walk, Goto
    <3>6. ~EndFrame /\ ~UNCHANGED vars
      BY <2>1 DEF EndFrame, local, vars
    <3>7. QED
      BY <1>1, <3>2, <3>3, <3>4, <3>5, <3>6 DEF Next
  <2>3. QED
    BY <1>1, <2>2, WalkEnds
<1>2. Spec => []Inv
  BY InvHolds
<1>3. QED
  BY <1>1, <1>2, PTL DEF Spec, LoadsAtomic

-----------------------------------------------------------------------------
(* The logs of all rows, as the abstract table has them.                   *)
Abstract == [r \in RowIds |-> TheLogs(r)]
Stored == [r \in RowIds |-> master[r].data]
Contents(c, g) == [r \in RowIds |-> [k \in 1 .. Len(c[r]) |-> [frame |-> g[c[r][k]].frame, data |-> g[c[r][k]].data]]]

(* They are spelled by the chains.                                         *)
LEMMA AbstractSpelled == Inv => Abstract = Contents(chain, logs)
  BY TheLogsOf DEF Abstract, Contents

(* The instance has the same Last and Cardinality.                         *)
LEMMA SameLast == \A s : Table!Last(s) = Last(s)
  BY DEF Table!Last, Last

(* The same sets are finite, with as many members.                         *)
LEMMA SameCardinality == \A S : Table!Cardinality(S) = Cardinality(S)
  BY DEF Table!Cardinality, Cardinality, Table!IsFiniteSet, IsFiniteSet

(* A step that leaves the chains, and what their logs say, stutters.       *)
LEMMA SameContents ==
  ASSUME Inv, Inv', chain' = chain,
         \A l \in logRows : logs'[l].frame = logs[l].frame /\ logs'[l].data = logs[l].data
  PROVE  Abstract' = Abstract
<1>1. Abstract = Contents(chain, logs)
  BY AbstractSpelled
<1>2. Abstract' = Contents(chain', logs')
  <2>1. (Inv => Abstract = Contents(chain, logs))'
    BY AbstractSpelled, PTL
  <2>2. Contents(chain, logs)' = Contents(chain', logs')
    BY DEF Contents
  <2>3. QED
    BY <2>1, <2>2
<1>3. \A r \in RowIds : \A k \in 1 .. Len(chain[r]) : chain[r][k] \in logRows
  BY ChainFacts
<1>4. Contents(chain, logs') = Contents(chain, logs)
  BY <1>3 DEF Contents
<1>5. QED
  BY <1>1, <1>2, <1>4

(* The end of a frame folds what LogTable folds.                           *)
LEMMA EndFrameRefines ==
  ASSUME Inv, EndFrame
  PROVE  Table!Next
<1> USE DbTableAssumption
<1> DEFINE Old(r)  == {k \in DOMAIN Abstract[r] : Abstract[r][k].frame + MinLogHistory <= currentFrame}
           Done(r) == IF r \in rows THEN Cardinality(Old(r)) ELSE 0
<1>1. Abstract = Contents(chain, logs) /\ Abstract' = Contents(chain', logs')
  <2>1. (Inv => Abstract = Contents(chain, logs))'
    BY AbstractSpelled, PTL
  <2>2. Contents(chain, logs)' = Contents(chain', logs')
    BY DEF Contents
  <2>3. Inv'
    BY EndFrameStep
  <2>4. QED
    BY <2>1, <2>2, <2>3, AbstractSpelled
<1>2. rows \subseteq RowIds /\ currentFrame \in Nat
  BY DEF Inv, TypeOK
<1>3. ASSUME NEW r \in RowIds
      PROVE  /\ DOMAIN Abstract[r] = 1 .. Len(chain[r]) /\ Len(Abstract[r]) = Len(chain[r]) /\ Len(chain[r]) \in Nat
             /\ Abstract[r] \in Seq([frame : 0 .. MaxFrame, data : Values \union {Deleted}])
             /\ \A k \in 1 .. Len(chain[r]) :
                  /\ chain[r][k] \in LogIds
                  /\ Abstract[r][k] = [frame |-> logs[chain[r][k]].frame, data |-> logs[chain[r][k]].data]
                  /\ Abstract[r][k].frame = logs[chain[r][k]].frame /\ Abstract[r][k].data = logs[chain[r][k]].data
                  /\ logs[chain[r][k]].frame \in 1 .. currentFrame
  <2>1. Len(chain[r]) \in Nat /\ \A k \in 1 .. Len(chain[r]) : chain[r][k] \in LogIds
    BY ChainFacts
  <2>2. Abstract[r] = [k \in 1 .. Len(chain[r]) |-> [frame |-> logs[chain[r][k]].frame, data |-> logs[chain[r][k]].data]]
    BY <1>1 DEF Contents
  <2>3. \A k \in 1 .. Len(chain[r]) : [frame |-> logs[chain[r][k]].frame, data |-> logs[chain[r][k]].data]
                                        \in [frame : 0 .. MaxFrame, data : Values \union {Deleted}]
    BY <2>1 DEF Inv, TypeOK
  <2>4. \A k \in 1 .. Len(chain[r]) : logs[chain[r][k]].frame \in 1 .. currentFrame
    <3>1. InOrder(logs, chain[r], logRows, currentFrame) /\ DOMAIN chain[r] = 1 .. Len(chain[r])
      BY ChainFacts DEF Inv, Chained
    <3>2. QED
      BY <3>1 DEF InOrder
  <2>5. Abstract[r] \in Seq([frame : 0 .. MaxFrame, data : Values \union {Deleted}]) /\ Len(Abstract[r]) = Len(chain[r])
        /\ DOMAIN Abstract[r] = 1 .. Len(chain[r])
    BY <2>1, <2>2, <2>3
  <2>6. \A k \in 1 .. Len(chain[r]) : Abstract[r][k] = [frame |-> logs[chain[r][k]].frame, data |-> logs[chain[r][k]].data]
    BY <2>2
  <2>7. \A k \in 1 .. Len(chain[r]) : Abstract[r][k].frame = logs[chain[r][k]].frame /\ Abstract[r][k].data = logs[chain[r][k]].data
    BY <2>2
  <2>8. QED
    BY <2>1, <2>4, <2>5, <2>6, <2>7
<1>4. ASSUME NEW r \in RowIds
      PROVE  Done(r) = Cut(r)
  <2> DEFINE K == {k \in 1 .. Len(chain[r]) : logs[chain[r][k]].frame + MinLogHistory <= currentFrame}
  <2>6. /\ DOMAIN Abstract[r] = 1 .. Len(chain[r]) /\ Len(chain[r]) \in Nat
        /\ \A k \in 1 .. Len(chain[r]) : Abstract[r][k].frame = logs[chain[r][k]].frame
    BY <1>3
  <2>7. \A k \in 1 .. Len(chain[r]) : logs[chain[r][k]].frame \in Nat /\ logs[chain[r][k]].frame >= 1
    <3>1. \A k \in 1 .. Len(chain[r]) : logs[chain[r][k]].frame \in 1 .. currentFrame
      BY <1>3
    <3>2. QED
      BY <1>2, <3>1
  <2>1. Old(r) = K
    BY <2>6
  <2>2. CASE r \notin rows
    BY <2>2 DEF Cut
  <2>3. CASE r \in rows /\ currentFrame > MinLogHistory
    <3> DEFINE f == currentFrame - MinLogHistory
    <3>1. f \in Nat
      BY <1>2, <2>3
    <3>2. \A x \in Nat : x + MinLogHistory <= currentFrame <=> x <= f
      BY <1>2
    <3>3. K = {k \in 1 .. Len(chain[r]) : logs[chain[r][k]].frame <= f}
      <4> HIDE DEF f
      <4>1. QED
        BY <2>7, <3>2
    <3> HIDE DEF f, K
    <3>4. K = 1 .. Folded(r, f) /\ Folded(r, f) \in Nat
      <4>1. {k \in 1 .. Len(chain[r]) : logs[chain[r][k]].frame <= f} = 1 .. Folded(r, f) /\ Folded(r, f) \in 0 .. Len(chain[r])
        BY <3>1, FoldedFacts
      <4>2. QED
        BY <3>3, <4>1
    <3>5. Cardinality(K) = Folded(r, f)
      <4>1. 1 \in Int /\ Folded(r, f) \in Int
        BY <3>4
      <4>2. Cardinality(1 .. Folded(r, f)) = (IF 1 > Folded(r, f) THEN 0 ELSE Folded(r, f) - 1 + 1)
        BY <4>1, FS_Interval
      <4>3. QED
        BY <3>4, <4>2
    <3>6. QED
      BY <2>1, <2>3, <3>5 DEF Cut, f
  <2>4. CASE r \in rows /\ ~(currentFrame > MinLogHistory)
    <3>4. \A x \in Nat : x >= 1 => ~(x + MinLogHistory <= currentFrame)
      BY <1>2, <2>4
    <3>1. \A k \in 1 .. Len(chain[r]) : ~(logs[chain[r][k]].frame + MinLogHistory <= currentFrame)
      BY <2>7, <3>4
    <3>2. K = {}
      BY <3>1
    <3>3. QED
      BY <2>1, <2>4, <3>2, FS_EmptySet DEF Cut
  <2>5. QED
    BY <2>2, <2>3, <2>4
<1>5. currentFrame' = currentFrame + 1 /\ UNCHANGED rows
  BY EndFrameEffect
<1>6. ASSUME NEW r \in RowIds
      PROVE  Abstract'[r] = SubSeq(Abstract[r], Cut(r) + 1, Len(Abstract[r]))
  <2> DEFINE n == Cut(r)
             c == chain[r]
             a == Abstract[r]
             E == [frame : 0 .. MaxFrame, data : Values \union {Deleted}]
             s == SubSeq(a, n + 1, Len(a))
             m == Len(c) - n
  <2>1. n \in 0 .. Len(c) /\ Len(Kept(r)) = m /\ Len(c) \in Nat
        /\ \A k \in 1 .. m : Kept(r)[k] = c[n + k] /\ n + k \in 1 .. Len(c)
    BY KeptFacts, ChainFacts
  <2>2. chain'[r] = Kept(r)
    BY ChainsCut
  <2>3. Abstract'[r] = [k \in 1 .. m |-> [frame |-> logs'[Kept(r)[k]].frame, data |-> logs'[Kept(r)[k]].data]]
    BY <1>1, <2>1, <2>2 DEF Contents
  <2>4. \A k \in 1 .. m : [frame |-> logs'[Kept(r)[k]].frame, data |-> logs'[Kept(r)[k]].data] = a[n + k]
    <3> TAKE k \in 1 .. m
    <3>1. Kept(r)[k] = c[n + k] /\ n + k \in 1 .. Len(c)
      BY <2>1
    <3>2. c[n + k] \in LogIds /\ a[n + k] = [frame |-> logs[c[n + k]].frame, data |-> logs[c[n + k]].data]
      BY <1>3, <3>1
    <3>3. logs'[c[n + k]].frame = logs[c[n + k]].frame /\ logs'[c[n + k]].data = logs[c[n + k]].data
      BY <3>2, EndFrameEffect
    <3>4. QED
      BY <3>1, <3>2, <3>3
  <2>5. Abstract'[r] = [k \in 1 .. m |-> a[n + k]]
    BY <2>3, <2>4
  <2>6. a \in Seq(E) /\ Len(a) = Len(c)
    BY <1>3
  <2> HIDE DEF n, c, a, E
  <2>7. s = [k \in 1 .. m |-> a[n + k]]
    <3>1. \A i \in (n + 1) .. Len(a) : a[i] \in E
      BY <2>1, <2>6
    <3>2. n + 1 \in Int /\ Len(a) \in Int
      BY <2>1, <2>6
    <3>3. /\ s \in Seq(E)
          /\ Len(s) = IF n + 1 <= Len(a) THEN Len(a) - (n + 1) + 1 ELSE 0
          /\ \A i \in 1 .. Len(a) - (n + 1) + 1 : s[i] = a[(n + 1) + i - 1]
      BY <3>1, <3>2, SubSeqProperties
    <3> HIDE DEF s
    <3>4. \A x \in Nat : \A y \in 0 .. x : /\ (IF y + 1 <= x THEN x - (y + 1) + 1 ELSE 0) = x - y
                                         /\ x - (y + 1) + 1 = x - y
                                         /\ \A i \in 1 .. x - y : (y + 1) + i - 1 = y + i
      OBVIOUS
    <3>5. Len(s) = m /\ \A i \in 1 .. m : s[i] = a[n + i]
      BY <2>1, <2>6, <3>3, <3>4
    <3>6. s = [i \in 1 .. Len(s) |-> s[i]]
      BY <3>3
    <3>7. QED
      BY <3>5, <3>6
  <2>8. QED
    BY <2>5, <2>7 DEF n, a
<1>7. ASSUME NEW r \in RowIds
      PROVE  Stored'[r] = IF Cut(r) = 0 THEN Stored[r] ELSE Abstract[r][Cut(r)].data
  <2>1. Cut(r) \in 0 .. Len(chain[r]) /\ Len(chain[r]) \in Nat
    BY KeptFacts, ChainFacts
  <2>2. Cut(r) # 0 => Abstract[r][Cut(r)].data = logs[chain[r][Cut(r)]].data
    <3>1. Cut(r) # 0 => Cut(r) \in 1 .. Len(chain[r])
      BY <2>1
    <3>2. \A k \in 1 .. Len(chain[r]) : Abstract[r][k].data = logs[chain[r][k]].data
      BY <1>3
    <3>3. QED
      BY <3>1, <3>2
  <2>3. master'[r].data = IF Cut(r) = 0 THEN master[r].data ELSE logs[chain[r][Cut(r)]].data
    BY EndFrameEffect
  <2>4. QED
    BY <2>2, <2>3 DEF Stored
<1>8. Abstract' = [r \in RowIds |-> SubSeq(Abstract[r], Done(r) + 1, Len(Abstract[r]))]
  <2> HIDE DEF Done
  <2>1. Abstract' = [r \in RowIds |-> Abstract'[r]]
    BY DEF Abstract
  <2>2. QED
    BY <1>4, <1>6, <2>1
<1>9. Stored' = [r \in RowIds |-> IF Done(r) = 0 THEN Stored[r] ELSE Abstract[r][Done(r)].data]
  <2> HIDE DEF Done
  <2>1. Stored' = [r \in RowIds |-> Stored'[r]]
    BY DEF Stored
  <2>2. QED
    BY <1>4, <1>7, <2>1
<1>10. Table!NextFrame
  <2>1. \A r : Done(r) = IF r \in rows THEN Table!Cardinality(Old(r)) ELSE 0
    BY SameCardinality
  <2> DEFINE Gone(r) == IF r \in rows THEN Table!Cardinality(Old(r)) ELSE 0
  <2>2. \A r : Done(r) = Gone(r)
    BY <2>1
  <2> HIDE DEF Done, Gone
  <2>3. /\ Abstract' = [r \in RowIds |-> SubSeq(Abstract[r], Gone(r) + 1, Len(Abstract[r]))]
        /\ Stored' = [r \in RowIds |-> IF Gone(r) = 0 THEN Stored[r] ELSE Abstract[r][Gone(r)].data]
    BY <1>8, <1>9, <2>2
  <2>4. QED
    BY <1>5, <2>3 DEF Table!NextFrame, Abstract, Stored, Gone
<1>11. QED
  BY <1>10 DEF Table!Next

(* Every step is one of LogTable's, or it stutters.                        *)
LEMMA StepRefines ==
  ASSUME Inv, [Next]_vars
  PROVE  [Table!Next]_(Table!vars)
<1> USE DbTableAssumption
<1> DEFINE Stutter == UNCHANGED <<currentFrame, rows, Abstract, Stored>>
<1>1. Stutter => [Table!Next]_(Table!vars)
  BY DEF Abstract, Stored, Table!vars
<1>2. Inv' /\ rows \subseteq RowIds
  BY StepHolds DEF Inv, TypeOK
<1>3. /\ Abstract = Contents(chain, logs)
      /\ Abstract' = Contents(chain', logs')
  <2>1. (Inv => Abstract = Contents(chain, logs))'
    BY AbstractSpelled, PTL
  <2>2. Contents(chain, logs)' = Contents(chain', logs')
    BY DEF Contents
  <2>3. QED
    BY <1>2, <2>1, <2>2, AbstractSpelled
<1>4. ASSUME UNCHANGED <<currentFrame, rows, master, logs>>
      PROVE  Stutter
  <2>1. chain' = chain
    BY <1>4, Unchained
  <2>2. QED
    BY <1>2, <1>4, <2>1, SameContents DEF Stored
<1>5. ASSUME NEW t \in Threads, NEW r \in RowIds, NEW d \in Values, Allocate(t, r, d)
      PROVE  Table!List(r)
  <2>1. UNCHANGED <<currentFrame, master, logs>> /\ r \notin rows /\ rows' = rows \union {r}
    BY <1>5 DEF Allocate
  <2>2. chain' = chain
    BY <2>1, Unchained
  <2>3. Abstract' = Abstract /\ Stored' = Stored
    BY <1>2, <2>1, <2>2, SameContents DEF Stored
  <2>4. QED
    BY <2>1, <2>3 DEF Table!List, Abstract, Stored
<1>6. ASSUME NEW t \in Threads, Reset(t)
      PROVE  \E r \in RowIds : Table!Forget(r)
  <2> DEFINE r == at[t]
  <2>1. r \in rows /\ r \in RowIds /\ chain' = [chain EXCEPT ![r] = <<>>]
    BY <1>2, <1>6, ResetStep
  <2>2. UNCHANGED <<currentFrame, rows, logs>> /\ Stored' = Stored
    <3>1. \A q \in RowIds : master'[q].data = master[q].data
      BY <1>6 DEF Reset, Inv, TypeOK
    <3>2. QED
      BY <1>6, <3>1 DEF Reset, Stored
  <2>3. Abstract' = [Abstract EXCEPT ![r] = <<>>]
    <3>1. \A q \in RowIds : Abstract'[q] = IF q = r THEN <<>> ELSE Abstract[q]
      <4> TAKE q \in RowIds
      <4>1. CASE q = r
        <5>1. chain'[q] = <<>>
          BY <2>1, <4>1 DEF chain
        <5>2. Abstract'[q] = [k \in 1 .. Len(<<>>) |-> [frame |-> logs'[(<<>>)[k]].frame, data |-> logs'[(<<>>)[k]].data]]
          BY <1>3, <5>1 DEF Contents
        <5>3. QED
          BY <4>1, <5>2
      <4>2. CASE q # r
        <5>1. chain'[q] = chain[q]
          BY <2>1, <4>2 DEF chain
        <5>2. QED
          BY <1>3, <2>2, <4>2, <5>1 DEF Contents
      <4>3. QED
        BY <4>1, <4>2
    <3>2. QED
      BY <3>1 DEF Abstract
  <2> HIDE DEF r
  <2>4. Table!Forget(r)
    BY <2>1, <2>2, <2>3 DEF Table!Forget, Abstract, Stored
  <2>5. QED
    BY <2>1, <2>4
<1>7. ASSUME NEW t \in Threads, Append0(t)
      PROVE  Stutter
  BY <1>2, <1>7, AppendStep, SameContents DEF Stored
<1>8. ASSUME NEW t \in Threads, Link(t)
      PROVE  \E r \in RowIds : Table!Write(r)
  <2> DEFINE r == at[t]
             n == tl[t]
             c == chain[r]
             e == [frame |-> currentFrame, data |-> logs[n].data]
  <2>1. /\ r \in rows /\ r \in RowIds /\ chain' = [chain EXCEPT ![r] = Append(c, n)]
        /\ c # <<>> => logs[LastOf(c)].data # Deleted
        /\ logs[n].frame = currentFrame /\ logs[n].data \in Values \union {Deleted}
        /\ \A l \in LogIds : logs'[l].frame = logs[l].frame /\ logs'[l].data = logs[l].data
        /\ \A q \in RowIds : master'[q].data = master[q].data
    BY <1>2, <1>8, LinkStep
  <2>2. UNCHANGED <<currentFrame, rows>> /\ Stored' = Stored
    BY <1>8, <2>1 DEF Link, Stored
  <2>3. n \in LogIds
    BY <1>8, Linking DEF Link
  <2>4. \A q \in RowIds : /\ chain[q] \in Seq(LogIds) /\ Len(chain[q]) \in Nat /\ \A k \in 1 .. Len(chain[q]) : chain[q][k] \in LogIds
    BY ChainFacts
  <2>5. Abstract[r] = [k \in 1 .. Len(c) |-> [frame |-> logs[c[k]].frame, data |-> logs[c[k]].data]]
    BY <1>3, <2>1 DEF Contents
  <2>6. Abstract[r] \in Seq([frame : 0 .. MaxFrame, data : Values \union {Deleted}]) /\ Len(Abstract[r]) = Len(c)
    <3>1. \A k \in 1 .. Len(c) : [frame |-> logs[c[k]].frame, data |-> logs[c[k]].data] \in [frame : 0 .. MaxFrame, data : Values \union {Deleted}]
      BY <2>1, <2>4 DEF Inv, TypeOK
    <3>2. QED
      BY <2>1, <2>4, <2>5, <3>1
  <2>7. Abstract'[r] = Append(Abstract[r], e)
    <3>1. chain'[r] = Append(c, n)
      BY <2>1 DEF chain
    <3>2. Abstract'[r] = [k \in 1 .. Len(Append(c, n)) |-> [frame |-> logs'[Append(c, n)[k]].frame, data |-> logs'[Append(c, n)[k]].data]]
      BY <1>3, <2>1, <3>1 DEF Contents
    <3>3. /\ Len(Append(c, n)) = Len(c) + 1
          /\ \A k \in 1 .. Len(c) + 1 : Append(c, n)[k] = IF k = Len(c) + 1 THEN n ELSE c[k]
      BY <2>1, <2>3, <2>4
    <3>4. \A k \in 1 .. Len(c) + 1 : [frame |-> logs'[Append(c, n)[k]].frame, data |-> logs'[Append(c, n)[k]].data]
                                       = IF k = Len(c) + 1 THEN e ELSE [frame |-> logs[c[k]].frame, data |-> logs[c[k]].data]
      <4> TAKE k \in 1 .. Len(c) + 1
      <4>1. CASE k = Len(c) + 1
        BY <2>1, <2>3, <3>3, <4>1
      <4>2. CASE k # Len(c) + 1
        <5>1. k \in 1 .. Len(c) /\ c[k] \in LogIds
          BY <2>1, <2>4, <4>2
        <5>2. QED
          BY <2>1, <3>3, <4>2, <5>1
      <4>3. QED
        BY <4>1, <4>2
    <3>5. Abstract'[r] = [k \in 1 .. Len(c) + 1 |-> IF k = Len(c) + 1 THEN e ELSE [frame |-> logs[c[k]].frame, data |-> logs[c[k]].data]]
      BY <3>2, <3>3, <3>4
    <3>6. Append(Abstract[r], e) = [k \in 1 .. Len(c) + 1 |-> IF k = Len(c) + 1 THEN e ELSE Abstract[r][k]]
      BY <2>6
    <3>7. \A k \in 1 .. Len(c) + 1 : k # Len(c) + 1 => Abstract[r][k] = [frame |-> logs[c[k]].frame, data |-> logs[c[k]].data]
      BY <2>1, <2>4, <2>5
    <3>8. QED
      BY <3>5, <3>6, <3>7
  <2>8. \A q \in RowIds : q # r => Abstract'[q] = Abstract[q]
    <3> TAKE q \in RowIds
    <3> HAVE q # r
    <3>1. chain'[q] = chain[q]
      BY <2>1 DEF chain
    <3>2. QED
      BY <1>3, <2>1, <2>4, <3>1 DEF Contents
  <2>9. Abstract' = [Abstract EXCEPT ![r] = Append(Abstract[r], e)]
    BY <2>7, <2>8 DEF Abstract
  <2>10. Len(Abstract'[r]) > Len(Abstract[r])
    <3>1. Len(Abstract'[r]) = Len(Abstract[r]) + 1
      BY <2>6, <2>7
    <3>2. QED
      BY <2>1, <2>4, <2>6, <3>1
  <2>11. Abstract[r] = <<>> \/ Last(Abstract[r]).data # Deleted
    <3>1. CASE Abstract[r] = <<>>
      BY <3>1
    <3>2. CASE Abstract[r] # <<>>
      <4>1. Len(c) # 0 /\ Len(c) \in 1 .. Len(c)
        BY <2>1, <2>4, <2>6, <3>2
      <4>2. c # <<>> /\ LastOf(c) = c[Len(c)]
        BY <4>1 DEF LastOf
      <4>3. Last(Abstract[r]) = [frame |-> logs[c[Len(c)]].frame, data |-> logs[c[Len(c)]].data]
        BY <2>5, <2>6, <4>1 DEF Last
      <4>4. QED
        BY <2>1, <4>2, <4>3
    <3>3. QED
      BY <3>1, <3>2
  <2>12. logs[n].data \in Values \union {Deleted}
    BY <2>1
  <2> HIDE DEF r, n, c
  <2>13. Table!Write(r)
    <3>1. Abstract[r] = <<>> \/ Table!Last(Abstract[r]).data # Deleted
      BY <2>11, SameLast
    <3>2. \E d \in Values \union {Deleted} : Abstract' = [Abstract EXCEPT ![r] = Append(@, [frame |-> currentFrame, data |-> d])]
      BY <2>9, <2>12
    <3>3. r \in rows /\ UNCHANGED <<currentFrame, rows>> /\ Stored' = Stored
      BY <2>1, <2>2
    <3>4. QED
      BY <2>10, <3>1, <3>2, <3>3 DEF Table!Write, Abstract, Stored
  <2>14. QED
    BY <2>1, <2>13
<1>9. ASSUME NEW t \in Threads, Finish(t)
      PROVE  Stutter
  <2>1. UNCHANGED <<currentFrame, rows, logs>>
    BY <1>9 DEF Finish
  <2>2. chain' = chain /\ \A q \in RowIds : master'[q].data = master[q].data
    BY <1>9, FinishStep
  <2>3. QED
    BY <1>2, <2>1, <2>2, SameContents DEF Stored
<1>10. ASSUME NEW t \in Threads, Unlist(t)
       PROVE  \E r \in RowIds : Table!Unlist(r)
  <2> DEFINE r == at[t]
             c == chain[r]
  <2>1. UNCHANGED <<currentFrame, logs, master>> /\ rows' = rows \ {r} /\ pc[t] = "unlist"
    BY <1>10 DEF Unlist
  <2>2. chain' = chain /\ r \in rows /\ c # <<>> /\ logs[LastOf(c)].data = Deleted
    BY <1>10, <2>1, FinishStep
  <2>3. Abstract' = Abstract /\ Stored' = Stored
    BY <1>2, <2>1, <2>2, SameContents DEF Stored
  <2>4. Abstract[r] # <<>> /\ Last(Abstract[r]).data = Deleted
    <3>1. /\ TheLogs(r) = [k \in 1 .. Len(c) |-> [frame |-> logs[c[k]].frame, data |-> logs[c[k]].data]]
          /\ Len(TheLogs(r)) = Len(c) /\ (TheLogs(r) = <<>> <=> c = <<>>)
      BY <1>2, <2>2, TheLogsOf
    <3>2. LastOf(c) = c[Len(c)] /\ Len(c) # 0 /\ Len(c) \in Nat
      BY <1>2, <2>2, ChainFacts
    <3>3. Len(c) \in 1 .. Len(c)
      BY <3>2
    <3> HIDE DEF c
    <3>4. Last(TheLogs(r)) = [frame |-> logs[c[Len(c)]].frame, data |-> logs[c[Len(c)]].data]
      BY <3>1, <3>3 DEF Last
    <3>5. Last(TheLogs(r)).data = Deleted
      BY <2>2, <3>2, <3>4
    <3>6. Abstract[r] = TheLogs(r)
      BY <1>2, <2>2 DEF Abstract
    <3>7. QED
      BY <2>2, <3>1, <3>5, <3>6
  <2> HIDE DEF r, c
  <2>5. Table!Unlist(r)
    <3>1. Table!Last(Abstract[r]).data = Deleted
      BY <2>4, SameLast
    <3>2. UNCHANGED <<currentFrame, Abstract, Stored>>
      BY <2>1, <2>3
    <3>3. QED
      BY <2>1, <2>2, <2>4, <3>1, <3>2 DEF Table!Unlist, Abstract, Stored
  <2>6. QED
    BY <1>2, <2>2, <2>5
<1>11. CASE EndFrame
  BY <1>11, EndFrameRefines
<1>12. ASSUME NEW t \in Threads, NEW r \in RowIds,
              (\E d \in Values : Store(t, r, d)) \/ Free(t, r) \/ readCurrent(t, r) \/ readCommitted(t, r)
       PROVE  Stutter
  <2>1. UNCHANGED <<currentFrame, rows, master, logs>>
    BY <1>12 DEF Store, Free, readCurrent, readCommitted, Load, disk
  <2>2. QED
    BY <1>4, <2>1
<1>13. ASSUME NEW t \in Threads, Walk(t) \/ LoadReturns(t)
       PROVE  Stutter
  <2>1. UNCHANGED <<currentFrame, rows, master, logs>>
    BY <1>13 DEF Walk, LoadReturns, disk
  <2>2. QED
    BY <1>4, <2>1
<1>14. CASE UNCHANGED vars
  <2>1. UNCHANGED <<currentFrame, rows, master, logs>>
    BY <1>14 DEF vars
  <2>2. Stutter
    BY <1>4, <2>1
  <2> HIDE DEF Stutter
  <2>3. QED
    BY <1>1, <2>2
<1>15. (\E r \in RowIds : Table!List(r) \/ Table!Forget(r) \/ Table!Write(r) \/ Table!Unlist(r)) => Table!Next
  BY DEF Table!Next
<1> HIDE DEF Stutter
<1>16. QED
  BY <1>1, <1>5, <1>6, <1>7, <1>8, <1>9, <1>10, <1>11, <1>12, <1>13, <1>14, <1>15 DEF Next

(* The two files with their links behave as one sequence of logs per row:  *)
(* whatever part of a write, a load or the end of a frame a thread is in,  *)
(* the table is what LogTable allows it to be.                             *)
THEOREM TableRefines == Spec => ImplementsLogTable
<1>1. Init => Table!Init
  <2> SUFFICES ASSUME Init
               PROVE  Table!Init
    OBVIOUS
  <2>1. PICK d \in Values : master = [r \in RowIds |-> [firstLog |-> NONE, lastLog |-> NONE,
                                                        lastCreatedFrame |-> 0, data |-> d]]
    BY DEF Init
  <2>2. Stored \in [RowIds -> Values]
    BY <2>1 DEF Stored
  <2>3. ASSUME NEW r \in RowIds
        PROVE  TheLogs(r) = <<>>
    <3>1. Inv
      BY InitHolds
    <3>2. master[r].firstLog = NONE
      BY <2>1
    <3>3. Spelled(master[r].firstLog, logs, chain[r]) /\ (chain[r] # <<>> => chain[r][1] \in LogIds)
      <4>1. chain[r] # <<>> => 1 \in 1 .. Len(chain[r])
        BY <3>1, ChainFacts
      <4>2. QED
        BY <3>1, <4>1, ChainFacts DEF Inv, Chained
    <3>4. chain[r] = <<>>
      BY <3>2, <3>3, DbTableAssumption DEF Spelled
    <3>5. QED
      BY <3>1, <3>4, TheLogsOf
  <2>4. Abstract = [r \in RowIds |-> <<>>]
    BY <2>3 DEF Abstract
  <2>5. QED
    BY <2>2, <2>4 DEF Init, Table!Init, Abstract, Stored
<1>2. Inv /\ [Next]_vars => [Table!Next]_(Table!vars)
  BY StepRefines
<1>3. Spec => []Inv
  BY InvHolds
<1>4. QED
  BY <1>1, <1>2, <1>3, PTL DEF Spec, ImplementsLogTable, Table!Spec

=============================================================================

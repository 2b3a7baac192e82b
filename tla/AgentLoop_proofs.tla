-------------------------- MODULE AgentLoop_proofs ---------------------------
(***************************************************************************)
(* Proofs about AgentLoop for any number of runs, messages, responses and  *)
(* tool calls: what a request sends is paired and whole, the transcript is *)
(* the conversation of the last run, every message the agent took is       *)
(* answered, and none of the user's messages is lost or delivered twice.   *)
(***************************************************************************)
EXTENDS AgentLoop, FiniteSetTheorems, SequenceTheorems, TLAPS

\* The groups of variables that actions leave alone are always expanded.
USE DEF vars, queues, agentVars, counters
-----------------------------------------------------------------------------
(***************************************************************************)
(* Sequences.                                                              *)
(***************************************************************************)
LEMMA FrontType ==
    ASSUME NEW S, NEW s \in Seq(S), s # << >>
    PROVE  /\ Front(s) \in Seq(S) /\ Len(Front(s)) = Len(s) - 1
           /\ \A i \in 1..(Len(s) - 1) : Front(s)[i] = s[i]
           /\ Len(s) \in DOMAIN s /\ s[Len(s)] \in S
           /\ Append(Front(s), s[Len(s)]) = s
<1>1. PICK n \in Nat : n = Len(s)
  OBVIOUS
<1>2. n >= 1 /\ \A i \in 1..n : s[i] \in S
  BY <1>1
<1>3. PICK f : f = Front(s)
  OBVIOUS
<1>4. f = SubSeq(s, 1, n - 1)
  BY <1>1, <1>3 DEF Front
<1>5. f \in Seq(S) /\ Len(f) = n - 1 /\ \A i \in 1..(n - 1) : f[i] = s[i]
  <2>1. 1 \in Int /\ n - 1 \in Int /\ \A i \in 1..(n - 1) : s[i] \in S
    BY <1>2
  <2>2. /\ SubSeq(s, 1, n - 1) \in Seq(S)
        /\ Len(SubSeq(s, 1, n - 1)) = IF 1 <= n - 1 THEN (n - 1) - 1 + 1 ELSE 0
        /\ \A i \in 1..((n - 1) - 1 + 1) : SubSeq(s, 1, n - 1)[i] = s[1 + i - 1]
    BY <2>1, SubSeqProperties
  <2>3. QED BY <1>2, <1>4, <2>2
<1>6. n \in DOMAIN s /\ s[n] \in S
  BY <1>1, <1>2
<1>7. Append(f, s[n]) = s
  <2>1. PICK t : t = Append(f, s[n])
    OBVIOUS
  <2>2. /\ t \in Seq(S) /\ Len(t) = n
        /\ \A i \in 1..(n - 1) : t[i] = f[i]
        /\ t[n] = s[n]
    BY <1>5, <1>6, <2>1, AppendProperties
  <2>3. \A i \in 1..n : t[i] = s[i]
    <3>1. \A i \in 1..n : i \in 1..(n - 1) \/ i = n
      OBVIOUS
    <3>2. QED BY <1>5, <2>2, <3>1
  <2>4. t = s
    BY <1>1, <2>2, <2>3, SeqEqual
  <2>5. QED BY <2>1, <2>4
<1>8. QED BY <1>1, <1>3, <1>5, <1>6, <1>7

LEMMA FrontOfAppend ==
    ASSUME NEW S, NEW s \in Seq(S), NEW e \in S
    PROVE  Front(Append(s, e)) = s
<1>1. PICK t : t = Append(s, e)
  OBVIOUS
<1>2. /\ t \in Seq(S) /\ t # << >> /\ Len(t) = Len(s) + 1
      /\ \A i \in 1..Len(s) : t[i] = s[i]
  BY <1>1, AppendProperties
<1>3. PICK f : f = Front(t)
  OBVIOUS
<1>4. /\ f \in Seq(S) /\ Len(f) = Len(t) - 1
      /\ \A i \in 1..(Len(t) - 1) : f[i] = t[i]
  BY <1>2, <1>3, FrontType
<1>5. Len(f) = Len(s) /\ \A i \in 1..Len(f) : f[i] = s[i]
  BY <1>2, <1>4
<1>6. f = s
  BY <1>4, <1>5, SeqEqual
<1>7. QED BY <1>1, <1>3, <1>6

LEMMA ConcatShape ==
    ASSUME NEW S, NEW s \in Seq(S), NEW t \in Seq(S)
    PROVE  /\ s \o t \in Seq(S) /\ Len(s \o t) = Len(s) + Len(t)
           /\ DOMAIN (s \o t) = 1..(Len(s) + Len(t))
           /\ \A i \in 1..Len(s) : (s \o t)[i] = s[i]
           /\ \A i \in 1..Len(t) : (s \o t)[Len(s) + i] = t[i]
           /\ \A i \in 1..(Len(s) + Len(t)) :
                 \/ i \in 1..Len(s) /\ (s \o t)[i] = s[i]
                 \/ i - Len(s) \in 1..Len(t) /\ i = Len(s) + (i - Len(s)) /\ (s \o t)[i] = t[i - Len(s)]
<1>1. PICK c : c = s \o t
  OBVIOUS
<1>2. /\ c \in Seq(S) /\ Len(c) = Len(s) + Len(t)
      /\ \A i \in 1..(Len(s) + Len(t)) : c[i] = IF i <= Len(s) THEN s[i] ELSE t[i - Len(s)]
  BY <1>1, ConcatProperties
<1>3. PICK n \in Nat : n = Len(s)
  OBVIOUS
<1>4. PICK m \in Nat : m = Len(t)
  OBVIOUS
<1>5. \A i \in 1..m : n + i \in 1..(n + m) /\ ~(n + i <= n) /\ (n + i) - n = i
  OBVIOUS
<1>6. \A i \in 1..n : i \in 1..(n + m) /\ i <= n
  OBVIOUS
<1>7. \A i \in 1..(n + m) : (i \in 1..n /\ i <= n) \/ (i - n \in 1..m /\ i = n + (i - n) /\ ~(i <= n))
  OBVIOUS
<1>8. QED BY <1>1, <1>2, <1>3, <1>4, <1>5, <1>6, <1>7

LEMMA ConsShape ==
    ASSUME NEW S, NEW a \in S, NEW t \in Seq(S)
    PROVE  /\ <<a>> \o t \in Seq(S) /\ Len(<<a>> \o t) = 1 + Len(t)
           /\ DOMAIN (<<a>> \o t) = 1..(1 + Len(t))
           /\ (<<a>> \o t)[1] = a
           /\ \A i \in 1..Len(t) : (<<a>> \o t)[1 + i] = t[i]
           /\ \A i \in 1..(1 + Len(t)) :
                 i = 1 \/ (i - 1 \in 1..Len(t) /\ (<<a>> \o t)[i] = t[i - 1])
<1>1. PICK u : u = <<a>>
  OBVIOUS
<1>2. u \in Seq(S) /\ Len(u) = 1 /\ u[1] = a
  BY <1>1
<1>3. PICK c : c = u \o t
  OBVIOUS
<1>4. /\ c \in Seq(S) /\ DOMAIN c = 1..(Len(u) + Len(t)) /\ Len(c) = Len(u) + Len(t)
      /\ \A i \in 1..Len(u) : c[i] = u[i]
      /\ \A i \in 1..Len(t) : c[Len(u) + i] = t[i]
      /\ \A i \in 1..(Len(u) + Len(t)) :
            \/ i \in 1..Len(u) /\ c[i] = u[i]
            \/ i - Len(u) \in 1..Len(t) /\ i = Len(u) + (i - Len(u)) /\ c[i] = t[i - Len(u)]
  BY <1>2, <1>3, ConcatShape
<1>5. (\A i \in 1..1 : i = 1) /\ 1 \in 1..1
  OBVIOUS
<1>6. QED BY <1>1, <1>2, <1>3, <1>4, <1>5
-----------------------------------------------------------------------------
(***************************************************************************)
(* Conversations.                                                          *)
(***************************************************************************)
LEMMA MessageFields == \A x \in MessageType : x.n \in Nat /\ x.n \in 0..MaxCalls
BY BoundsAssumption DEF MessageType

LEMMA MessageTypes ==
    /\ \A m \in Numbers : User(m) \in MessageType
    /\ \A t \in 0..MaxTurns, n \in 0..MaxCalls :
          \A stop \in {"partial", "stop", "length", "error", "aborted"} : Assistant(t, n, stop) \in MessageType
    /\ \A t \in 0..MaxTurns, k \in CallNumbers : ToolResult(t, k) \in MessageType
    /\ NoMessage \in MessageType
<1> USE BoundsAssumption DEF MessageType, Numbers, CallNumbers
<1>1. \A m \in Numbers : User(m) \in MessageType
  BY DEF User
<1>2. \A t \in 0..MaxTurns, n \in 0..MaxCalls :
        \A stop \in {"partial", "stop", "length", "error", "aborted"} : Assistant(t, n, stop) \in MessageType
  BY DEF Assistant
<1>3. \A t \in 0..MaxTurns, k \in CallNumbers : ToolResult(t, k) \in MessageType
  BY DEF ToolResult
<1>4. NoMessage \in MessageType
  BY DEF NoMessage
<1>5. QED BY <1>1, <1>2, <1>3, <1>4

LEMMA UsersType ==
    ASSUME NEW ms \in Seq(Numbers)
    PROVE  /\ Users(ms) \in Seq(MessageType) /\ Len(Users(ms)) = Len(ms)
           /\ \A i \in 1..Len(ms) : Users(ms)[i] = User(ms[i])
<1>1. \A i \in 1..Len(ms) : ms[i] \in Numbers
  OBVIOUS
<1>2. \A i \in 1..Len(ms) : User(ms[i]) \in MessageType
  BY <1>1, MessageTypes
<1>3. Users(ms) = [i \in 1..Len(ms) |-> User(ms[i])]
  BY DEF Users
<1>4. QED BY <1>2, <1>3

LEMMA PlaceholdersType ==
    ASSUME NEW t \in 0..MaxTurns, NEW n \in 0..MaxCalls
    PROVE  /\ Placeholders(t, n) \in Seq(MessageType) /\ Len(Placeholders(t, n)) = n
           /\ \A i \in 1..n : Placeholders(t, n)[i] = ToolResult(t, i)
<1>1. \A i \in 1..n : ToolResult(t, i) \in MessageType
  BY BoundsAssumption, MessageTypes DEF CallNumbers
<1>2. QED BY <1>1 DEF Placeholders

LEMMA ResultsType ==
    ASSUME NEW t \in 0..MaxTurns, NEW ks \in Seq(CallNumbers)
    PROVE  /\ Results(t, ks) \in Seq(MessageType) /\ Len(Results(t, ks)) = Len(ks)
           /\ \A i \in 1..Len(ks) : Results(t, ks)[i] = ToolResult(t, ks[i])
<1>1. \A i \in 1..Len(ks) : ks[i] \in CallNumbers
  OBVIOUS
<1>2. \A i \in 1..Len(ks) : ToolResult(t, ks[i]) \in MessageType
  BY <1>1, MessageTypes
<1>3. Results(t, ks) = [i \in 1..Len(ks) |-> ToolResult(t, ks[i])]
  BY DEF Results
<1>4. QED BY <1>2, <1>3

\* A conversation a model can be shown.
NoPartial(c) == \A i \in DOMAIN c : c[i].stop # "partial"
Good(c) == Paired(c) /\ NoPartial(c)

LEMMA GoodEmpty == Good(<< >>)
BY DEF Good, Paired, NoPartial

\* The results right behind a response are those of its calls.
Answered(c, i) ==
    /\ \A j \in (i + 1)..(i + c[i].n) : \E k \in 1..c[i].n : c[j] = ToolResult(c[i].id, k)
    /\ \A k \in 1..c[i].n : \E j \in (i + 1)..(i + c[i].n) : c[j] = ToolResult(c[i].id, k)

LEMMA PairedAt ==
    ASSUME NEW c \in Seq(MessageType), Paired(c), NEW i \in 1..Len(c), c[i].role = "assistant"
    PROVE  i + c[i].n <= Len(c) /\ Answered(c, i)
<1>1. i \in DOMAIN c
  OBVIOUS
<1>2. /\ i + c[i].n <= Len(c)
      /\ {c[j] : j \in (i + 1)..(i + c[i].n)} = {ToolResult(c[i].id, k) : k \in 1..c[i].n}
  BY <1>1 DEF Paired
<1>3. QED BY <1>2 DEF Answered

LEMMA PairedFrom ==
    ASSUME NEW c \in Seq(MessageType),
           \A i \in 1..Len(c) : c[i].role = "assistant" => i + c[i].n <= Len(c) /\ Answered(c, i),
           \A j \in 1..Len(c) : c[j].role = "toolResult" =>
               \E i \in 1..(j - 1) : c[i].role = "assistant" /\ c[i].id = c[j].id /\ j <= i + c[i].n
    PROVE  Paired(c)
<1>1. ASSUME NEW i \in DOMAIN c, c[i].role = "assistant"
      PROVE  /\ i + c[i].n <= Len(c)
             /\ {c[j] : j \in (i + 1)..(i + c[i].n)} = {ToolResult(c[i].id, k) : k \in 1..c[i].n}
  <2>1. i \in 1..Len(c)
    OBVIOUS
  <2>2. i + c[i].n <= Len(c) /\ Answered(c, i)
    BY <1>1, <2>1
  <2>3. {c[j] : j \in (i + 1)..(i + c[i].n)} = {ToolResult(c[i].id, k) : k \in 1..c[i].n}
    BY ONLY <2>2 DEF Answered
  <2>4. QED BY <2>2, <2>3
<1>2. DOMAIN c = 1..Len(c)
  OBVIOUS
<1>3. QED BY <1>1, <1>2 DEF Paired

\* Conversations may be put together.
LEMMA PairedConcat ==
    ASSUME NEW b \in Seq(MessageType), NEW d \in Seq(MessageType), Paired(b), Paired(d)
    PROVE  Paired(b \o d)
<1>1. PICK n \in Nat : n = Len(b)
  OBVIOUS
<1>2. PICK m \in Nat : m = Len(d)
  OBVIOUS
<1>3. PICK c : c = b \o d
  OBVIOUS
<1>4. /\ c \in Seq(MessageType) /\ Len(c) = n + m /\ DOMAIN c = 1..(n + m)
      /\ \A i \in 1..n : c[i] = b[i]
      /\ \A i \in 1..m : c[n + i] = d[i]
      /\ \A i \in 1..(n + m) : i \in 1..n \/ (i - n \in 1..m /\ i = n + (i - n))
  BY <1>1, <1>2, <1>3, ConcatShape
<1>5. /\ \A i \in 1..n : b[i].n \in Nat
      /\ \A i \in 1..m : d[i].n \in Nat
  BY <1>1, <1>2, MessageFields
<1>6. \A i \in 1..n : b[i].role = "assistant" => i + b[i].n <= n /\ Answered(b, i)
  BY <1>1, PairedAt
<1>7. \A i \in 1..m : d[i].role = "assistant" => i + d[i].n <= m /\ Answered(d, i)
  BY <1>2, PairedAt
<1>8. ASSUME NEW i \in 1..(n + m), c[i].role = "assistant"
      PROVE  i + c[i].n <= n + m /\ Answered(c, i)
  <2>1. CASE i \in 1..n
    <3>1. PICK p \in Nat : p = b[i].n
      BY <1>5, <2>1
    <3>2. c[i] = b[i] /\ i + p <= n /\ Answered(b, i)
      BY <1>4, <1>6, <1>8, <2>1, <3>1
    <3>3. \A j \in (i + 1)..(i + p) : j \in 1..n
      BY <2>1, <3>2
    <3>4. \A j \in (i + 1)..(i + p) : c[j] = b[j]
      BY <1>4, <3>3
    <3>5. Answered(c, i)
      <4>1. /\ \A j \in (i + 1)..(i + p) : \E k \in 1..p : b[j] = ToolResult(b[i].id, k)
            /\ \A k \in 1..p : \E j \in (i + 1)..(i + p) : b[j] = ToolResult(b[i].id, k)
        BY <3>1, <3>2 DEF Answered
      <4>2. /\ \A j \in (i + 1)..(i + p) : \E k \in 1..p : c[j] = ToolResult(b[i].id, k)
            /\ \A k \in 1..p : \E j \in (i + 1)..(i + p) : c[j] = ToolResult(b[i].id, k)
        BY ONLY <3>4, <4>1
      <4>3. c[i].n = p /\ c[i].id = b[i].id
        BY <3>1, <3>2
      <4>4. QED BY ONLY <4>2, <4>3 DEF Answered
    <3>6. i + p <= n + m
      BY <2>1, <3>2
    <3>7. QED BY <3>1, <3>2, <3>5, <3>6
  <2>2. CASE i - n \in 1..m /\ i = n + (i - n)
    <3>1. PICK x \in 1..m : i = n + x
      BY <2>2
    <3>2. PICK p \in Nat : p = d[x].n
      BY <1>5
    <3>3. c[i] = d[x]
      BY <1>4, <3>1
    <3>4. x + p <= m /\ Answered(d, x)
      BY <1>7, <1>8, <3>2, <3>3
    <3>5. \A j \in (x + 1)..(x + p) : j \in 1..m /\ n + j \in (i + 1)..(i + p)
      BY <3>1, <3>4
    <3>6. \A j \in (i + 1)..(i + p) : j - n \in (x + 1)..(x + p) /\ j = n + (j - n)
      BY <3>1, <3>4
    <3>7. \A j \in (x + 1)..(x + p) : c[n + j] = d[j]
      BY <1>4, <3>5
    <3>8. \A j \in (i + 1)..(i + p) : c[j] = d[j - n]
      BY <3>6, <3>7
    <3>9. \A j \in (i + 1)..(i + p) : \E k \in 1..p : c[j] = ToolResult(d[x].id, k)
      <4>1. \A y \in (x + 1)..(x + p) : \E k \in 1..p : d[y] = ToolResult(d[x].id, k)
        BY <3>2, <3>4 DEF Answered
      <4>2. QED BY <3>6, <3>8, <4>1
    <3>10. \A k \in 1..p : \E j \in (i + 1)..(i + p) : c[j] = ToolResult(d[x].id, k)
      <4>1. SUFFICES ASSUME NEW k \in 1..p PROVE \E j \in (i + 1)..(i + p) : c[j] = ToolResult(d[x].id, k)
        OBVIOUS
      <4>2. PICK j \in (x + 1)..(x + p) : d[j] = ToolResult(d[x].id, k)
        BY <3>2, <3>4 DEF Answered
      <4>3. QED BY <3>5, <3>7, <4>2
    <3>11. Answered(c, i)
      BY <3>2, <3>3, <3>9, <3>10 DEF Answered
    <3>12. i + p <= n + m
      BY <3>1, <3>4
    <3>13. QED BY <3>2, <3>3, <3>11, <3>12
  <2>3. QED BY <1>4, <2>1, <2>2
<1>9. ASSUME NEW j \in 1..(n + m), c[j].role = "toolResult"
      PROVE  \E i \in 1..(j - 1) : c[i].role = "assistant" /\ c[i].id = c[j].id /\ j <= i + c[i].n
  <2>1. CASE j \in 1..n
    <3>1. PICK i \in 1..(j - 1) : b[i].role = "assistant" /\ b[i].id = b[j].id /\ j <= i + b[i].n
      BY <1>1, <1>4, <1>9, <2>1 DEF Paired
    <3>2. i \in 1..n
      BY <2>1
    <3>3. QED BY <1>4, <2>1, <3>1, <3>2
  <2>2. CASE j - n \in 1..m /\ j = n + (j - n)
    <3>1. PICK x \in 1..m : j = n + x
      BY <2>2
    <3>2. c[j] = d[x]
      BY <1>4, <3>1
    <3>3. PICK i \in 1..(x - 1) : d[i].role = "assistant" /\ d[i].id = d[x].id /\ x <= i + d[i].n
      BY <1>2, <1>9, <3>2 DEF Paired
    <3>4. i \in 1..m /\ n + i \in 1..(j - 1)
      BY <3>1
    <3>5. c[n + i] = d[i]
      BY <1>4, <3>4
    <3>6. j <= n + i + d[i].n
      BY <1>5, <3>1, <3>3, <3>4
    <3>7. QED BY <3>2, <3>3, <3>4, <3>5, <3>6
  <2>3. QED BY <1>4, <2>1, <2>2
<1>10. Paired(c)
  <2>1. \A i \in 1..Len(c) : c[i].role = "assistant" => i + c[i].n <= Len(c) /\ Answered(c, i)
    BY <1>4, <1>8
  <2>2. \A j \in 1..Len(c) : c[j].role = "toolResult" =>
          \E i \in 1..(j - 1) : c[i].role = "assistant" /\ c[i].id = c[j].id /\ j <= i + c[i].n
    BY <1>4, <1>9
  <2>3. QED BY <1>4, <2>1, <2>2, PairedFrom
<1>11. QED BY <1>3, <1>10

LEMMA NoPartialConcat ==
    ASSUME NEW b \in Seq(MessageType), NEW d \in Seq(MessageType), NoPartial(b), NoPartial(d)
    PROVE  NoPartial(b \o d)
<1>1. PICK n \in Nat : n = Len(b)
  OBVIOUS
<1>2. PICK m \in Nat : m = Len(d)
  OBVIOUS
<1>3. PICK c : c = b \o d
  OBVIOUS
<1>4. /\ DOMAIN c = 1..(n + m)
      /\ \A i \in 1..(n + m) : (i \in 1..n /\ c[i] = b[i]) \/ (i - n \in 1..m /\ c[i] = d[i - n])
  BY <1>1, <1>2, <1>3, ConcatShape
<1>5. /\ \A i \in 1..n : b[i].stop # "partial"
      /\ \A i \in 1..m : d[i].stop # "partial"
  BY <1>1, <1>2 DEF NoPartial
<1>6. NoPartial(c)
  BY <1>4, <1>5 DEF NoPartial
<1>7. QED BY <1>3, <1>6

LEMMA GoodConcat ==
    ASSUME NEW b \in Seq(MessageType), NEW d \in Seq(MessageType), Good(b), Good(d)
    PROVE  Good(b \o d)
BY PairedConcat, NoPartialConcat DEF Good

\* A conversation is what the user says, and responses with the results of
\* their calls, in any order.
LEMMA GoodUsers ==
    ASSUME NEW ms \in Seq(Numbers)
    PROVE  Good(Users(ms))
<1>1. PICK us : us = Users(ms)
  OBVIOUS
<1>2. us \in Seq(MessageType) /\ \A i \in 1..Len(us) : us[i] = User(ms[i])
  BY <1>1, UsersType
<1>3. \A i \in 1..Len(us) : us[i].role = "user" /\ us[i].stop = "none"
  <2>1. SUFFICES ASSUME NEW i \in 1..Len(us) PROVE us[i].role = "user" /\ us[i].stop = "none"
    OBVIOUS
  <2>2. us[i] = User(ms[i])
    BY <1>2
  <2>3. QED BY <2>2 DEF User
<1>4. Paired(us)
  BY <1>2, <1>3, PairedFrom
<1>5. DOMAIN us = 1..Len(us)
  BY <1>2
<1>6. NoPartial(us)
  BY <1>3, <1>5 DEF NoPartial
<1>7. QED BY <1>1, <1>4, <1>6 DEF Good

AllResults(rs, t, m) ==
    /\ Len(rs) = m
    /\ \A i \in 1..m : \E k \in 1..m : rs[i] = ToolResult(t, k)
    /\ \A k \in 1..m : \E i \in 1..m : rs[i] = ToolResult(t, k)

LEMMA GoodBlock ==
    ASSUME NEW t, NEW m \in Nat, NEW stop, stop # "partial",
           Assistant(t, m, stop) \in MessageType,
           NEW rs \in Seq(MessageType), AllResults(rs, t, m)
    PROVE  Good(<<Assistant(t, m, stop)>> \o rs)
<1>1. PICK a \in MessageType : a = Assistant(t, m, stop)
  OBVIOUS
<1>2. a.role = "assistant" /\ a.id = t /\ a.n = m /\ a.stop # "partial"
  BY <1>1 DEF Assistant
<1>3. PICK c : c = <<a>> \o rs
  OBVIOUS
<1>4. /\ c \in Seq(MessageType) /\ DOMAIN c = 1..(1 + m) /\ Len(c) = 1 + m
      /\ c[1] = a
      /\ \A i \in 1..m : c[1 + i] = rs[i]
      /\ \A i \in 1..(1 + m) : i = 1 \/ (i - 1 \in 1..m /\ c[i] = rs[i - 1])
  <2>1. Len(rs) = m
    BY DEF AllResults
  <2>2. QED BY <1>1, <1>3, <2>1, ConsShape
<1>5. ASSUME NEW i \in 1..m
      PROVE  rs[i].role = "toolResult" /\ rs[i].id = t /\ rs[i].stop = "none"
  <2>1. PICK k \in 1..m : rs[i] = ToolResult(t, k)
    BY DEF AllResults
  <2>2. QED BY <2>1 DEF ToolResult
<1>6. NoPartial(c)
  <2>1. \A i \in 1..(1 + m) : c[i].stop # "partial"
    BY <1>2, <1>4, <1>5
  <2>2. QED BY <1>4, <2>1 DEF NoPartial
<1>7. ASSUME NEW i \in 1..(1 + m), c[i].role = "assistant"
      PROVE  i + c[i].n <= 1 + m /\ Answered(c, i)
  <2>1. i = 1 /\ c[i].n = m /\ c[i].id = t
    BY <1>2, <1>4, <1>5, <1>7
  <2>2. \A j \in (1 + 1)..(1 + m) : j # 1 /\ j \in 1..(1 + m)
    OBVIOUS
  <2>3. \A j \in (1 + 1)..(1 + m) : \E k \in 1..m : c[j] = ToolResult(t, k)
    <3>1. SUFFICES ASSUME NEW j \in (1 + 1)..(1 + m) PROVE \E k \in 1..m : c[j] = ToolResult(t, k)
      OBVIOUS
    <3>2. j - 1 \in 1..m /\ c[j] = rs[j - 1]
      BY <1>4, <2>2
    <3>3. QED BY <3>2 DEF AllResults
  <2>4. \A k \in 1..m : \E j \in (1 + 1)..(1 + m) : c[j] = ToolResult(t, k)
    <3>1. SUFFICES ASSUME NEW k \in 1..m PROVE \E j \in (1 + 1)..(1 + m) : c[j] = ToolResult(t, k)
      OBVIOUS
    <3>2. PICK x \in 1..m : rs[x] = ToolResult(t, k)
      BY DEF AllResults
    <3>3. 1 + x \in (1 + 1)..(1 + m)
      OBVIOUS
    <3>4. QED BY <1>4, <3>2, <3>3
  <2>5. QED BY <2>1, <2>3, <2>4 DEF Answered
<1>8. ASSUME NEW j \in 1..(1 + m), c[j].role = "toolResult"
       PROVE  \E i \in 1..(j - 1) : c[i].role = "assistant" /\ c[i].id = c[j].id /\ j <= i + c[i].n
  <2>1. j # 1
    BY <1>2, <1>4, <1>8
  <2>2. j - 1 \in 1..m /\ c[j] = rs[j - 1]
    BY <1>4, <2>1
  <2>3. c[j].id = t
    BY <1>5, <2>2
  <2>4. 1 \in 1..(j - 1) /\ j <= 1 + m
    BY <2>1
  <2>5. QED BY <1>2, <1>4, <2>3, <2>4
<1>9. Paired(c)
  <2>1. \A i \in 1..Len(c) : c[i].role = "assistant" => i + c[i].n <= Len(c) /\ Answered(c, i)
    BY <1>4, <1>7
  <2>2. \A j \in 1..Len(c) : c[j].role = "toolResult" =>
          \E i \in 1..(j - 1) : c[i].role = "assistant" /\ c[i].id = c[j].id /\ j <= i + c[i].n
    BY <1>4, <1>8
  <2>3. QED BY <1>4, <2>1, <2>2, PairedFrom
<1>10. QED BY <1>1, <1>3, <1>6, <1>9 DEF Good
-----------------------------------------------------------------------------
(***************************************************************************)
(* What the consumer has, and what the stream still brings it.             *)
(***************************************************************************)
\* pos[i] is how long the transcript is when i events have been consumed.
Grows(pos, ms, es, c) ==
    /\ pos \in [0..Len(es) -> 0..Len(c)]
    /\ pos[0] = Len(ms) /\ pos[Len(es)] = Len(c)
    /\ \A j \in 1..Len(ms) : c[j] = ms[j]
    /\ \A i \in 1..Len(es) : es[i].kind = "end" =>
          pos[i] = pos[i - 1] + 1 /\ c[pos[i]] = es[i].message
    /\ \A i \in 1..Len(es) : es[i].kind # "end" => pos[i] = pos[i - 1]

\* Whoever has the transcript ms has c when the events es are consumed.
Follows(ms, es, c) == \E pos : Grows(pos, ms, es, c)

LEMMA EventFields ==
    /\ \A e \in EventType : e.message \in MessageType
    /\ \A x \in MessageType : \A kind \in {"start", "end", "agentEnd"} :
          [kind |-> kind, message |-> x] \in EventType
BY DEF EventType

LEMMA EndsType ==
    ASSUME NEW ns \in Seq(MessageType)
    PROVE  /\ Ends(ns) \in Seq(EventType) /\ Len(Ends(ns)) = Len(ns)
           /\ \A i \in 1..Len(ns) : Ends(ns)[i].kind = "end" /\ Ends(ns)[i].message = ns[i]
<1>1. \A i \in 1..Len(ns) : ns[i] \in MessageType
  OBVIOUS
<1>2. \A i \in 1..Len(ns) : [kind |-> "end", message |-> ns[i]] \in EventType
  BY <1>1, EventFields
<1>3. Ends(ns) = [i \in 1..Len(ns) |-> [kind |-> "end", message |-> ns[i]]]
  BY DEF Ends
<1>4. QED BY <1>2, <1>3

LEMMA FollowsSelf ==
    ASSUME NEW ms \in Seq(MessageType)
    PROVE  Follows(ms, << >>, ms)
<1>1. PICK n \in Nat : n = Len(ms)
  OBVIOUS
<1>2. PICK pos : pos = [i \in 0..0 |-> n]
  OBVIOUS
<1>3. Len(<< >>) = 0 /\ 0 \in 0..0 /\ n \in 0..n
  OBVIOUS
<1>4. Grows(pos, ms, << >>, ms)
  BY <1>1, <1>2, <1>3 DEF Grows
<1>5. QED BY <1>4 DEF Follows

LEMMA FollowsNothing ==
    ASSUME NEW ms \in Seq(MessageType), NEW c \in Seq(MessageType), Follows(ms, << >>, c)
    PROVE  ms = c
<1>1. PICK pos : Grows(pos, ms, << >>, c)
  BY DEF Follows
<1>2. Len(ms) = Len(c) /\ \A j \in 1..Len(ms) : c[j] = ms[j]
  BY <1>1 DEF Grows
<1>3. QED BY <1>2, SeqEqual

\* Messages are committed behind what is on the stream already.
LEMMA FollowsEnds ==
    ASSUME NEW ms \in Seq(MessageType), NEW es \in Seq(EventType), NEW c \in Seq(MessageType),
           NEW ns \in Seq(MessageType), Follows(ms, es, c)
    PROVE  Follows(ms, es \o Ends(ns), c \o ns)
<1>1. PICK pos : Grows(pos, ms, es, c)
  BY DEF Follows
<1>2. PICK n \in Nat : n = Len(es)
  OBVIOUS
<1>3. PICK m \in Nat : m = Len(ns)
  OBVIOUS
<1>4. PICK k \in Nat : k = Len(c)
  OBVIOUS
<1>5. PICK l \in Nat : l = Len(ms)
  OBVIOUS
<1>6. PICK fs : fs = es \o Ends(ns)
  OBVIOUS
<1>7. PICK d : d = c \o ns
  OBVIOUS
<1>8. PICK en : en = Ends(ns)
  OBVIOUS
<1>9. en \in Seq(EventType) /\ Len(en) = m /\ \A i \in 1..m : en[i].kind = "end" /\ en[i].message = ns[i]
  BY <1>3, <1>8, EndsType
<1>10. /\ Len(fs) = n + m
       /\ \A i \in 1..n : fs[i] = es[i]
       /\ \A i \in 1..(n + m) : (i \in 1..n /\ fs[i] = es[i]) \/ (i - n \in 1..m /\ fs[i] = en[i - n])
  <2>1. /\ Len(fs) = Len(es) + Len(en)
        /\ \A i \in 1..Len(es) : fs[i] = es[i]
        /\ \A i \in 1..(Len(es) + Len(en)) :
              \/ i \in 1..Len(es) /\ fs[i] = es[i]
              \/ i - Len(es) \in 1..Len(en) /\ i = Len(es) + (i - Len(es)) /\ fs[i] = en[i - Len(es)]
    BY <1>6, <1>8, <1>9, ConcatShape
  <2>2. QED BY <1>2, <1>9, <2>1
<1>11. /\ Len(d) = k + m
       /\ \A i \in 1..k : d[i] = c[i]
       /\ \A i \in 1..m : d[k + i] = ns[i]
  BY <1>3, <1>4, <1>7, ConcatShape
<1>12. /\ pos \in [0..n -> 0..k] /\ pos[0] = l /\ pos[n] = k
       /\ \A j \in 1..l : c[j] = ms[j]
       /\ \A i \in 1..n : es[i].kind = "end" => pos[i] = pos[i - 1] + 1 /\ c[pos[i]] = es[i].message
       /\ \A i \in 1..n : es[i].kind # "end" => pos[i] = pos[i - 1]
  BY <1>1, <1>2, <1>4, <1>5 DEF Grows
<1>13. PICK q : q = [i \in 0..(n + m) |-> IF i <= n THEN pos[i] ELSE k + (i - n)]
  OBVIOUS
<1>14. /\ q \in [0..(n + m) -> 0..(k + m)]
       /\ \A i \in 0..n : q[i] = pos[i]
       /\ \A i \in 0..m : q[n + i] = k + i
  <2>1. \A i \in 0..n : i \in 0..(n + m) /\ i <= n /\ pos[i] \in 0..(k + m)
    BY <1>12
  <2>2. \A i \in 0..n : q[i] = pos[i]
    BY <1>13, <2>1
  <2>3. \A i \in 1..m : n + i \in 0..(n + m) /\ ~(n + i <= n) /\ (n + i) - n = i
    OBVIOUS
  <2>4. \A i \in 1..m : q[n + i] = k + i
    BY <1>13, <2>3
  <2>5. q[n + 0] = k + 0
    BY <1>12, <2>2
  <2>6. \A i \in 0..m : q[n + i] = k + i
    BY <2>4, <2>5
  <2>7. \A i \in 0..(n + m) : (i \in 0..n /\ i <= n) \/ (~(i <= n) /\ k + (i - n) \in 0..(k + m))
    OBVIOUS
  <2>8. q \in [0..(n + m) -> 0..(k + m)]
    BY <1>13, <2>1, <2>7
  <2>9. QED BY <2>2, <2>6, <2>8
<1>15. l \in 0..k
  BY <1>12
<1>16. Grows(q, ms, fs, d)
  <2>1. q[0] = l /\ q[n + m] = k + m
    BY <1>12, <1>14
  <2>2. \A j \in 1..l : d[j] = ms[j]
    BY <1>11, <1>12, <1>15
  <2>3. ASSUME NEW i \in 1..(n + m)
        PROVE  /\ fs[i].kind = "end" => q[i] = q[i - 1] + 1 /\ d[q[i]] = fs[i].message
               /\ fs[i].kind # "end" => q[i] = q[i - 1]
    <3>1. CASE i \in 1..n /\ fs[i] = es[i]
      <4>1. i \in 0..n /\ i - 1 \in 0..n
        BY <3>1
      <4>2. q[i] = pos[i] /\ q[i - 1] = pos[i - 1] /\ pos[i] \in 0..k /\ pos[i - 1] \in 0..k
        BY <1>12, <1>14, <4>1
      <4>3. /\ es[i].kind = "end" => pos[i] = pos[i - 1] + 1 /\ c[pos[i]] = es[i].message
            /\ es[i].kind # "end" => pos[i] = pos[i - 1]
        <5>1. i \in 1..n
          BY <3>1
        <5>2. QED BY ONLY <1>12, <5>1
      <4>4. es[i].kind = "end" => pos[i] \in 1..k
        BY ONLY <4>2, <4>3
      <4>5. es[i].kind = "end" => d[pos[i]] = c[pos[i]]
        BY <1>11, <4>4
      <4>6. QED BY <3>1, <4>2, <4>3, <4>5
    <3>2. CASE i - n \in 1..m /\ fs[i] = en[i - n]
      <4>1. PICK x \in 1..m : i = n + x
        BY <3>2
      <4>2. fs[i] = en[x]
        BY <3>2, <4>1
      <4>3. fs[i].kind = "end" /\ fs[i].message = ns[x]
        BY <1>9, <4>2
      <4>4. x \in 0..m /\ x - 1 \in 0..m /\ i - 1 = n + (x - 1)
        BY <4>1
      <4>5. q[i] = k + x /\ q[i - 1] = k + (x - 1)
        BY <1>14, <4>1, <4>4
      <4>6. d[k + x] = ns[x]
        BY <1>11
      <4>7. QED BY <4>3, <4>5, <4>6
    <3>3. QED BY <1>10, <3>1, <3>2
  <2>4. QED BY <1>5, <1>10, <1>11, <1>14, <2>1, <2>2, <2>3 DEF Grows
<1>17. QED BY <1>6, <1>7, <1>16 DEF Follows

\* An event that commits nothing changes nothing.
LEMMA FollowsOther ==
    ASSUME NEW ms \in Seq(MessageType), NEW es \in Seq(EventType), NEW c \in Seq(MessageType),
           NEW e \in EventType, e.kind # "end", Follows(ms, es, c)
    PROVE  Follows(ms, es \o <<e>>, c)
<1>1. PICK pos : Grows(pos, ms, es, c)
  BY DEF Follows
<1>2. PICK n \in Nat : n = Len(es)
  OBVIOUS
<1>3. PICK k \in Nat : k = Len(c)
  OBVIOUS
<1>4. PICK fs : fs = es \o <<e>>
  OBVIOUS
<1>5. Len(fs) = n + 1 /\ (\A i \in 1..n : fs[i] = es[i]) /\ fs[n + 1] = e
  <2>1. fs = Append(es, e)
    BY <1>4
  <2>2. QED BY <1>2, <2>1, AppendProperties
<1>6. /\ pos \in [0..n -> 0..k] /\ pos[n] = k
      /\ \A i \in 1..n : es[i].kind = "end" => pos[i] = pos[i - 1] + 1 /\ c[pos[i]] = es[i].message
      /\ \A i \in 1..n : es[i].kind # "end" => pos[i] = pos[i - 1]
  BY <1>1, <1>2, <1>3 DEF Grows
<1>7. PICK q : q = [i \in 0..(n + 1) |-> IF i <= n THEN pos[i] ELSE k]
  OBVIOUS
<1>8. /\ q \in [0..(n + 1) -> 0..k]
      /\ \A i \in 0..n : q[i] = pos[i]
      /\ q[n + 1] = k
  <2>1. \A i \in 0..n : i \in 0..(n + 1) /\ i <= n /\ pos[i] \in 0..k
    BY <1>6
  <2>2. n + 1 \in 0..(n + 1) /\ ~(n + 1 <= n) /\ k \in 0..k
    OBVIOUS
  <2>3. \A i \in 0..(n + 1) : i \in 0..n \/ ~(i <= n)
    OBVIOUS
  <2>4. QED BY <1>7, <2>1, <2>2, <2>3
<1>9. ASSUME NEW i \in 1..(n + 1)
      PROVE  /\ fs[i].kind = "end" => q[i] = q[i - 1] + 1 /\ c[q[i]] = fs[i].message
             /\ fs[i].kind # "end" => q[i] = q[i - 1]
  <2>1. CASE i \in 1..n
    <3>1. i \in 0..n /\ i - 1 \in 0..n
      BY <2>1
    <3>2. q[i] = pos[i] /\ q[i - 1] = pos[i - 1] /\ fs[i] = es[i]
      BY <1>5, <1>8, <2>1, <3>1
    <3>3. QED BY <1>6, <2>1, <3>2
  <2>2. CASE i = n + 1
    <3>1. i - 1 = n /\ n \in 0..n
      BY <2>2
    <3>2. q[i - 1] = k /\ q[i] = k /\ fs[i].kind # "end"
      BY <1>5, <1>6, <1>8, <2>2, <3>1
    <3>3. QED BY <3>2
  <2>3. QED BY <2>1, <2>2
<1>10. 0 \in 0..n
  OBVIOUS
<1>11. q[0] = Len(ms) /\ \A j \in 1..Len(ms) : c[j] = ms[j]
  BY <1>1, <1>8, <1>10 DEF Grows
<1>12. Grows(q, ms, fs, c)
  BY <1>3, <1>5, <1>8, <1>9, <1>11 DEF Grows
<1>13. QED BY <1>4, <1>12 DEF Follows

\* The consumer takes an event.
LEMMA FollowsConsume ==
    ASSUME NEW ms \in Seq(MessageType), NEW es \in Seq(EventType), NEW c \in Seq(MessageType),
           es # << >>, Follows(ms, es, c)
    PROVE  /\ es[1].kind = "end" => Follows(Append(ms, es[1].message), Tail(es), c)
           /\ es[1].kind # "end" => Follows(ms, Tail(es), c)
<1>1. PICK pos : Grows(pos, ms, es, c)
  BY DEF Follows
<1>2. PICK n \in Nat : Len(es) = n + 1
  <2>1. Len(es) \in Nat /\ Len(es) # 0
    OBVIOUS
  <2>2. QED BY <2>1
<1>3. PICK k \in Nat : k = Len(c)
  OBVIOUS
<1>4. PICK l \in Nat : l = Len(ms)
  OBVIOUS
<1>5. PICK fs : fs = Tail(es)
  OBVIOUS
<1>6. Len(fs) = n /\ \A i \in 1..n : fs[i] = es[i + 1]
  BY <1>2, <1>5
<1>7. /\ pos \in [0..(n + 1) -> 0..k] /\ pos[0] = l /\ pos[n + 1] = k
      /\ \A j \in 1..l : c[j] = ms[j]
      /\ \A i \in 1..(n + 1) : es[i].kind = "end" => pos[i] = pos[i - 1] + 1 /\ c[pos[i]] = es[i].message
      /\ \A i \in 1..(n + 1) : es[i].kind # "end" => pos[i] = pos[i - 1]
  BY <1>1, <1>2, <1>3, <1>4 DEF Grows
<1>8. PICK q : q = [i \in 0..n |-> pos[i + 1]]
  OBVIOUS
<1>9. /\ q \in [0..n -> 0..k]
      /\ \A i \in 0..n : q[i] = pos[i + 1]
  <2>1. \A i \in 0..n : i + 1 \in 0..(n + 1)
    OBVIOUS
  <2>2. QED BY <1>7, <1>8, <2>1
<1>10. q[n] = k /\ q[0] = pos[1] /\ 1 \in 1..(n + 1) /\ 1 - 1 = 0
  BY <1>7, <1>9
<1>11. ASSUME NEW i \in 1..n
       PROVE  /\ fs[i].kind = "end" => q[i] = q[i - 1] + 1 /\ c[q[i]] = fs[i].message
              /\ fs[i].kind # "end" => q[i] = q[i - 1]
  <2>1. i \in 0..n /\ i - 1 \in 0..n /\ (i - 1) + 1 = i /\ i + 1 \in 1..(n + 1) /\ (i + 1) - 1 = i
    OBVIOUS
  <2>2. q[i] = pos[i + 1] /\ q[i - 1] = pos[i] /\ fs[i] = es[i + 1]
    BY <1>6, <1>9, <2>1
  <2>3. QED BY <1>7, <2>1, <2>2
<1>12. ASSUME es[1].kind = "end" PROVE Follows(Append(ms, es[1].message), fs, c)
  <2>1. pos[1] = l + 1 /\ c[l + 1] = es[1].message
    BY <1>7, <1>10, <1>12
  <2>2. PICK us : us = Append(ms, es[1].message)
    OBVIOUS
  <2>3. es[1].message \in MessageType
    <3>1. es[1] \in EventType
      OBVIOUS
    <3>2. QED BY <3>1, EventFields
  <2>4. Len(us) = l + 1 /\ (\A j \in 1..l : us[j] = ms[j]) /\ us[l + 1] = es[1].message
    BY <1>4, <2>2, <2>3, AppendProperties
  <2>5. \A j \in 1..(l + 1) : j \in 1..l \/ j = l + 1
    OBVIOUS
  <2>6. \A j \in 1..(l + 1) : c[j] = us[j]
    BY <1>7, <2>1, <2>4, <2>5
  <2>7. Grows(q, us, fs, c)
    BY <1>3, <1>6, <1>9, <1>10, <1>11, <2>1, <2>4, <2>6 DEF Grows
  <2>8. QED BY <2>2, <2>7 DEF Follows
<1>13. ASSUME es[1].kind # "end" PROVE Follows(ms, fs, c)
  <2>1. pos[1] = l
    BY <1>7, <1>10, <1>13
  <2>2. Grows(q, ms, fs, c)
    BY <1>3, <1>4, <1>6, <1>7, <1>9, <1>10, <1>11, <2>1 DEF Grows
  <2>3. QED BY <2>2 DEF Follows
<1>14. QED BY <1>5, <1>12, <1>13

-----------------------------------------------------------------------------
(***************************************************************************)
(* Types, and what each step makes of its run.                             *)
(***************************************************************************)
LEMMA TakenType ==
    ASSUME NEW S, NEW q \in Seq(S)
    PROVE  Taken(q) \in Seq(S) /\ Left(q) \in Seq(S)
<1>1. CASE QueueMode = "one-at-a-time" /\ q # << >>
  <2>1. Head(q) \in S /\ Tail(q) \in Seq(S)
    BY <1>1
  <2>2. Taken(q) = <<Head(q)>> /\ Left(q) = Tail(q)
    BY <1>1 DEF Taken, Left
  <2>3. QED BY <2>1, <2>2
<1>2. CASE ~(QueueMode = "one-at-a-time" /\ q # << >>)
  BY <1>2 DEF Taken, Left
<1>3. QED BY <1>1, <1>2

RunsType == run \in [Runs -> RunType]
Others(r) == \A q \in Runs : q # r => run'[q] = run[q]
SameResponse(r) ==
    run'[r].turn = run[r].turn /\ run'[r].calls = run[r].calls /\ run'[r].answered = run[r].answered
SameConsumer(r) == run'[r].consumer = run[r].consumer /\ run'[r].partial = run[r].partial

LEMMA OneRun ==
    ASSUME RunsType, NEW r \in Runs, NEW t \in RunType, run' = [run EXCEPT ![r] = t]
    PROVE  RunsType' /\ Others(r) /\ run'[r] = t
BY DEF RunsType, Others

LEMMA RunFields ==
    ASSUME NEW t \in RunType
    PROVE  /\ t.at \in {"idle", "poll", "turn", "request", "streaming", "tools", "yield", "ended"}
           /\ t.ctx \in Seq(MessageType) /\ t.pending \in Seq(Numbers) /\ t.hasMore \in BOOLEAN
           /\ t.retry \in 0..2 /\ t.turn \in 0..MaxTurns /\ t.calls \in 0..MaxCalls
           /\ t.answered \in Seq(CallNumbers) /\ t.steering \in Seq(Numbers)
           /\ t.events \in Seq(EventType) /\ t.closed \in {"open", "ended", "failed"}
           /\ t.consumer \in {"none", "consuming", "finished"} /\ t.partial \in MessageType
BY DEF RunType

LEMMA PollSteeringShape ==
    ASSUME TypeOK, NEW r \in Runs, PollSteering(r)
    PROVE  /\ RunsType' /\ Others(r) /\ SameResponse(r) /\ SameConsumer(r)
           /\ run[r].at = "poll" /\ run'[r].at \in {"turn", "yield"}
           /\ run[r].hasMore => run'[r].at = "turn"
           /\ run'[r].ctx = run[r].ctx /\ run'[r].events = run[r].events
           /\ run'[r].hasMore = run[r].hasMore /\ run'[r].closed = run[r].closed
<1>1. PICK x : x = IF run[r].skipPoll THEN << >> ELSE Taken(steeringQueue)
  OBVIOUS
<1>2. x \in Seq(Numbers)
  <2>1. Taken(steeringQueue) \in Seq(Numbers)
    BY TakenType DEF TypeOK
  <2>2. QED BY <1>1, <2>1
<1>3. PICK a : a = IF Loops(run[r].hasMore, x) THEN "turn" ELSE "yield"
  OBVIOUS
<1>4. a \in {"turn", "yield"} /\ (run[r].hasMore => a = "turn")
  BY <1>3 DEF Loops
<1>5. RunsType /\ run[r] \in RunType
  BY DEF TypeOK, RunsType
<1>6. PICK t : t = [run[r] EXCEPT !.pending = x, !.skipPoll = FALSE, !.at = a]
  OBVIOUS
<1>7. t \in RunType
  BY <1>2, <1>4, <1>5, <1>6 DEF RunType
<1>8. run[r].at = "poll" /\ run' = [run EXCEPT ![r] = t]
  BY <1>1, <1>3, <1>5, <1>6 DEF PollSteering, RunsType, RunType
<1>9. RunsType' /\ Others(r) /\ run'[r] = t
  BY <1>5, <1>7, <1>8, OneRun
<1>10. /\ t.at = a /\ t.ctx = run[r].ctx /\ t.events = run[r].events /\ t.hasMore = run[r].hasMore
       /\ t.closed = run[r].closed /\ t.turn = run[r].turn /\ t.calls = run[r].calls
       /\ t.answered = run[r].answered /\ t.consumer = run[r].consumer /\ t.partial = run[r].partial
  BY <1>5, <1>6 DEF RunType
<1>11. QED BY <1>4, <1>8, <1>9, <1>10 DEF SameResponse, SameConsumer

LEMMA BeginTurnShape ==
    ASSUME TypeOK, NEW r \in Runs, BeginTurn(r)
    PROVE  /\ RunsType' /\ Others(r) /\ SameResponse(r) /\ SameConsumer(r)
           /\ run[r].at = "turn" /\ run'[r].at = "request"
           /\ run'[r].hasMore = run[r].hasMore /\ run'[r].closed = run[r].closed
           /\ \E ms \in Seq(Numbers) :
                 /\ run'[r].ctx = run[r].ctx \o Users(ms)
                 /\ run'[r].events = run[r].events \o Ends(Users(ms))
<1>1. RunsType /\ run[r] \in RunType
  BY DEF TypeOK, RunsType
<1>2. PICK ms \in Seq(Numbers) : ms = run[r].pending
  BY <1>1, RunFields
<1>3. PICK us \in Seq(MessageType) : us = Users(ms)
  BY UsersType
<1>4. PICK es \in Seq(EventType) : es = Ends(us)
  BY EndsType
<1>5. PICK c : c = run[r].ctx \o us
  OBVIOUS
<1>6. PICK fs : fs = run[r].events \o es
  OBVIOUS
<1>7. c \in Seq(MessageType) /\ fs \in Seq(EventType)
  BY <1>1, <1>5, <1>6, RunFields, ConcatShape
<1>8. PICK t : t = [run[r] EXCEPT !.events = fs, !.ctx = c, !.pending = << >>, !.at = "request"]
  OBVIOUS
<1>9. t \in RunType
  <2>1. << >> \in Seq(Numbers)
    OBVIOUS
  <2>2. QED BY <1>1, <1>7, <1>8, <2>1 DEF RunType
<1>10. run[r].at = "turn" /\ run' = [run EXCEPT ![r] = t]
  BY <1>1, <1>2, <1>3, <1>4, <1>5, <1>6, <1>8 DEF BeginTurn, RunsType, RunType
<1>11. RunsType' /\ Others(r) /\ run'[r] = t
  BY <1>1, <1>9, <1>10, OneRun
<1>12. /\ t.at = "request" /\ t.ctx = c /\ t.events = fs /\ t.hasMore = run[r].hasMore
       /\ t.closed = run[r].closed /\ t.turn = run[r].turn /\ t.calls = run[r].calls
       /\ t.answered = run[r].answered /\ t.consumer = run[r].consumer /\ t.partial = run[r].partial
  BY <1>1, <1>8 DEF RunType
<1>13. QED BY <1>3, <1>4, <1>5, <1>6, <1>10, <1>11, <1>12 DEF SameResponse, SameConsumer

LEMMA OpenResponseShape ==
    ASSUME TypeOK, NEW r \in Runs, OpenResponse(r)
    PROVE  /\ RunsType' /\ Others(r) /\ SameConsumer(r)
           /\ run[r].at = "request" /\ run'[r].at = "streaming"
           /\ run'[r].hasMore = run[r].hasMore /\ run'[r].closed = run[r].closed
           /\ run'[r].answered = run[r].answered
           /\ \E n \in 0..MaxCalls :
                 LET m == Assistant(nextTurn, n, "partial") IN
                 /\ run'[r].ctx = Append(run[r].ctx, m)
                 /\ run'[r].events = run[r].events \o Starts(m)
                 /\ run'[r].turn = nextTurn /\ run'[r].calls = n
                 /\ m \in MessageType
           /\ nextTurn \in 1..MaxTurns
<1>1. RunsType /\ run[r] \in RunType
  BY DEF TypeOK, RunsType
<1>2. nextTurn \in 0..MaxTurns /\ nextTurn \in 1..MaxTurns
  BY BoundsAssumption DEF TypeOK, OpenResponse
<1>3. PICK n \in 0..MaxCalls :
        run' = [run EXCEPT ![r].ctx = Append(@, Assistant(nextTurn, n, "partial")),
                           ![r].events = @ \o Starts(Assistant(nextTurn, n, "partial")),
                           ![r].turn = nextTurn, ![r].calls = n, ![r].at = "streaming"]
  BY DEF OpenResponse
<1>4. PICK m \in MessageType : m = Assistant(nextTurn, n, "partial")
  BY <1>2, MessageTypes
<1>5. PICK c : c = Append(run[r].ctx, m)
  OBVIOUS
<1>6. PICK fs : fs = run[r].events \o Starts(m)
  OBVIOUS
<1>7. c \in Seq(MessageType) /\ fs \in Seq(EventType)
  <2>1. [kind |-> "start", message |-> m] \in EventType
    BY EventFields
  <2>2. Starts(m) \in Seq(EventType)
    BY <2>1 DEF Starts
  <2>3. QED BY <1>1, <1>4, <1>5, <1>6, <2>2, RunFields, ConcatShape
<1>8. PICK t : t = [run[r] EXCEPT !.ctx = c, !.events = fs, !.turn = nextTurn, !.calls = n, !.at = "streaming"]
  OBVIOUS
<1>9. t \in RunType
  BY <1>1, <1>2, <1>7, <1>8 DEF RunType
<1>10. run[r].at = "request" /\ run' = [run EXCEPT ![r] = t]
  <2>1. run[r].at = "request"
    BY DEF OpenResponse
  <2>2. QED BY <1>1, <1>3, <1>4, <1>5, <1>6, <1>8, <2>1 DEF RunsType, RunType
<1>11. RunsType' /\ Others(r) /\ run'[r] = t
  BY <1>1, <1>9, <1>10, OneRun
<1>12. /\ t.at = "streaming" /\ t.ctx = c /\ t.events = fs /\ t.hasMore = run[r].hasMore
       /\ t.closed = run[r].closed /\ t.turn = nextTurn /\ t.calls = n
       /\ t.answered = run[r].answered /\ t.consumer = run[r].consumer /\ t.partial = run[r].partial
  BY <1>1, <1>8 DEF RunType
<1>13. QED BY <1>2, <1>4, <1>5, <1>6, <1>10, <1>11, <1>12 DEF SameConsumer

\* The calls of a response are answered by placeholders, or it stops for them.
Finalized(r, base, opening, x, n, stop, ph, tl) ==
    LET m == Assistant(x, n, stop) IN
    /\ m \in MessageType
    /\ run'[r].ctx = Append(base, m) \o ph
    /\ run'[r].events = ((run[r].events \o opening) \o Ends(<<m>> \o ph)) \o tl
    /\ \/ /\ run'[r].at = "tools" /\ run'[r].hasMore = TRUE /\ run'[r].closed = run[r].closed
          /\ stop = "stop" /\ ph = << >> /\ tl = << >>
       \/ /\ run'[r].at = "poll" /\ run'[r].hasMore = FALSE /\ run'[r].closed = run[r].closed
          /\ AllResults(ph, x, n) /\ tl = << >>
       \/ /\ run'[r].at = "ended" /\ run'[r].closed = "ended"
          /\ AllResults(ph, x, n) /\ tl = AgentEnd

LEMMA FinalizeShape ==
    ASSUME TypeOK, NEW r \in Runs, NEW base \in Seq(MessageType), NEW opening \in Seq(EventType),
           NEW x \in 0..MaxTurns, NEW n \in 0..MaxCalls, NEW stop \in {"stop", "length", "error", "aborted"},
           Finalize(r, base, opening, Assistant(x, n, stop))
    PROVE  /\ RunsType' /\ Others(r) /\ SameResponse(r) /\ SameConsumer(r)
           /\ \E ph \in Seq(MessageType), tl \in Seq(EventType) :
                 Finalized(r, base, opening, x, n, stop, ph, tl)
<1>1. RunsType /\ run[r] \in RunType
  BY DEF TypeOK, RunsType
<1>2. PICK m \in MessageType : m = Assistant(x, n, stop)
  <2>1. stop \in {"partial", "stop", "length", "error", "aborted"}
    BY BoundsAssumption
  <2>2. Assistant(x, n, stop) \in MessageType
    BY <2>1, MessageTypes
  <2>3. QED BY <2>2
<1>3. m.stop = stop /\ m.id = x /\ m.n = n
  BY <1>2 DEF Assistant
<1>4. PICK ph : ph = IF stop = "stop" THEN << >> ELSE Placeholders(x, n)
  OBVIOUS
<1>5. ph \in Seq(MessageType)
  BY <1>4, PlaceholdersType
<1>6. stop # "stop" \/ n = 0 => AllResults(ph, x, n)
  <2>1. CASE stop # "stop"
    <3>1. Len(ph) = n /\ \A i \in 1..n : ph[i] = ToolResult(x, i)
      BY <1>4, <2>1, PlaceholdersType
    <3>2. QED BY <3>1 DEF AllResults
  <2>2. CASE stop = "stop" /\ n = 0
    <3>1. Len(ph) = n /\ \A i \in 1..n : FALSE
      BY <1>4, <2>2
    <3>2. QED BY <3>1 DEF AllResults
  <2>3. QED BY <2>1, <2>2
<1>7. PICK over \in BOOLEAN : over = (stop \in {"error", "aborted"})
  <2>1. (stop \in {"error", "aborted"}) \in BOOLEAN
    OBVIOUS
  <2>2. QED BY <2>1
<1>8. PICK more \in BOOLEAN : more = (stop = "stop" /\ n > 0)
  OBVIOUS
<1>9. PICK tl : tl = IF over THEN AgentEnd ELSE << >>
  OBVIOUS
<1>10. tl \in Seq(EventType)
  <2>1. [kind |-> "agentEnd", message |-> NoMessage] \in EventType
    BY MessageTypes, EventFields
  <2>2. AgentEnd \in Seq(EventType)
    BY <2>1 DEF AgentEnd
  <2>3. QED BY <1>9, <2>2
<1>11. PICK c : c = Append(base, m) \o ph
  OBVIOUS
<1>12. PICK fs : fs = ((run[r].events \o opening) \o Ends(<<m>> \o ph)) \o tl
  OBVIOUS
<1>13. c \in Seq(MessageType) /\ fs \in Seq(EventType)
  <2>0. Append(base, m) \in Seq(MessageType)
    BY AppendProperties
  <2>1. PICK b \in Seq(MessageType) : b = Append(base, m)
    BY <2>0
  <2>2. c \in Seq(MessageType)
    BY <1>5, <1>11, <2>1, ConcatShape
  <2>3. PICK u : u = <<m>> \o ph
    OBVIOUS
  <2>4. u \in Seq(MessageType)
    BY <1>5, <2>3, ConsShape
  <2>5. Ends(u) \in Seq(EventType)
    BY <2>4, EndsType
  <2>6. PICK e1 : e1 = run[r].events \o opening
    OBVIOUS
  <2>7. e1 \in Seq(EventType)
    BY <1>1, <2>6, RunFields, ConcatShape
  <2>8. PICK e2 : e2 = e1 \o Ends(u)
    OBVIOUS
  <2>9. e2 \in Seq(EventType)
    BY <2>5, <2>7, <2>8, ConcatShape
  <2>10. fs \in Seq(EventType)
    BY <1>10, <1>12, <2>3, <2>6, <2>8, <2>9, ConcatShape
  <2>11. QED BY <2>2, <2>10
<1>14. PICK a : a = IF over THEN "ended" ELSE IF more THEN "tools" ELSE "poll"
  OBVIOUS
<1>15. PICK h : h = IF over THEN run[r].hasMore ELSE more
  OBVIOUS
<1>16. PICK cl : cl = IF over THEN "ended" ELSE run[r].closed
  OBVIOUS
<1>17. PICK t : t = [run[r] EXCEPT !.ctx = c, !.events = fs, !.retry = 0, !.hasMore = h, !.closed = cl, !.at = a]
  OBVIOUS
<1>18. t \in RunType
  <2>1. h \in BOOLEAN /\ cl \in {"open", "ended", "failed"} /\ a \in {"ended", "tools", "poll"} /\ 0 \in 0..2
    BY <1>1, <1>14, <1>15, <1>16, RunFields
  <2>2. run[r] \in RunType
    BY <1>1
  <2>3. QED BY ONLY <1>13, <1>17, <2>1, <2>2 DEF RunType
<1>19. run' = [run EXCEPT ![r] = t]
  <2>1. Placeholders(m.id, m.n) = Placeholders(x, n)
    BY <1>3
  <2>2. run' = [run EXCEPT ![r].ctx = c, ![r].events = fs, ![r].retry = 0, ![r].hasMore = h,
                           ![r].closed = cl, ![r].at = a]
    <3>1. Finalize(r, base, opening, m)
      BY <1>2
    <3>2. QED
      BY <1>3, <1>4, <1>7, <1>8, <1>9, <1>11, <1>12, <1>14, <1>15, <1>16, <2>1, <3>1 DEF Finalize
  <2>3. QED BY <1>1, <1>17, <2>2 DEF RunsType, RunType
<1>20. RunsType' /\ Others(r) /\ run'[r] = t
  BY <1>1, <1>18, <1>19, OneRun
<1>21. /\ t.at = a /\ t.ctx = c /\ t.events = fs /\ t.hasMore = h
       /\ t.closed = cl /\ t.turn = run[r].turn /\ t.calls = run[r].calls
       /\ t.answered = run[r].answered /\ t.consumer = run[r].consumer /\ t.partial = run[r].partial
  BY <1>1, <1>17 DEF RunType
<1>22. \/ /\ a = "tools" /\ h = TRUE /\ cl = run[r].closed
          /\ stop = "stop" /\ ph = << >> /\ tl = << >>
       \/ /\ a = "poll" /\ h = FALSE /\ cl = run[r].closed
          /\ AllResults(ph, x, n) /\ tl = << >>
       \/ /\ a = "ended" /\ cl = "ended"
          /\ AllResults(ph, x, n) /\ tl = AgentEnd
  <2>1. CASE over
    BY <1>6, <1>7, <1>9, <1>14, <1>16, <2>1
  <2>2. CASE ~over /\ more
    BY <1>4, <1>8, <1>9, <1>14, <1>15, <1>16, <2>2
  <2>3. CASE ~over /\ ~more
    <3>0. n \in Nat /\ (n = 0 \/ n > 0)
      BY BoundsAssumption
    <3>1. stop # "stop" \/ n = 0
      BY <1>8, <2>3, <3>0
    <3>2. QED BY <1>6, <1>9, <1>14, <1>15, <1>16, <2>3, <3>1
  <2>4. QED BY <2>1, <2>2, <2>3
<1>23. SameResponse(r) /\ SameConsumer(r)
  BY <1>20, <1>21 DEF SameResponse, SameConsumer
<1>24. Finalized(r, base, opening, x, n, stop, ph, tl)
  BY <1>2, <1>11, <1>12, <1>20, <1>21, <1>22 DEF Finalized
<1>25. QED BY <1>5, <1>10, <1>20, <1>23, <1>24

\* The response r is making comes to its end, or one that never began is made up.
LEMMA ResponseEndsShape ==
    ASSUME TypeOK, NEW r \in Runs, CompleteResponse(r) \/ AbortResponse(r),
           run[r].at = "streaming" => run[r].ctx # << >>
    PROVE  \E base \in Seq(MessageType), opening \in Seq(EventType), x \in 0..MaxTurns, n \in 0..MaxCalls,
              stop \in {"stop", "length", "error", "aborted"} :
             /\ Finalize(r, base, opening, Assistant(x, n, stop))
             /\ \/ /\ run[r].at = "streaming" /\ base = Front(run[r].ctx) /\ opening = << >>
                   /\ x = run[r].turn /\ n = run[r].calls
                \/ /\ run[r].at = "request" /\ base = run[r].ctx
                   /\ opening = Starts(Assistant(0, 0, "aborted")) /\ x = 0 /\ n = 0 /\ stop = "aborted"
<1>1. run[r] \in RunType
  BY DEF TypeOK
<1>2. run[r].ctx \in Seq(MessageType) /\ run[r].turn \in 0..MaxTurns /\ run[r].calls \in 0..MaxCalls
  BY <1>1, RunFields
<1>3. CASE run[r].at = "streaming"
  <2>1. PICK stop \in {"stop", "length", "error", "aborted"} :
          Finalize(r, Front(run[r].ctx), << >>, Assistant(run[r].turn, run[r].calls, stop))
    BY <1>3 DEF CompleteResponse, AbortResponse
  <2>2. Front(run[r].ctx) \in Seq(MessageType)
    BY <1>2, <1>3, FrontType
  <2>3. << >> \in Seq(EventType)
    OBVIOUS
  <2>4. QED BY <1>2, <1>3, <2>1, <2>2, <2>3
<1>4. CASE run[r].at = "request"
  <2>1. Finalize(r, run[r].ctx, Starts(Assistant(0, 0, "aborted")), Assistant(0, 0, "aborted"))
    BY <1>4 DEF CompleteResponse, AbortResponse
  <2>2. 0 \in 0..MaxTurns /\ 0 \in 0..MaxCalls
    BY BoundsAssumption
  <2>3. Assistant(0, 0, "aborted") \in MessageType
    BY <2>2, MessageTypes
  <2>4. [kind |-> "start", message |-> Assistant(0, 0, "aborted")] \in EventType
    BY <2>3, EventFields
  <2>5. Starts(Assistant(0, 0, "aborted")) \in Seq(EventType)
    BY <2>4 DEF Starts
  <2>6. QED BY <1>2, <1>4, <2>1, <2>2, <2>5
<1>5. run[r].at = "streaming" \/ run[r].at = "request"
  BY DEF CompleteResponse, AbortResponse
<1>6. QED BY <1>3, <1>4, <1>5

LEMMA FailResponseShape ==
    ASSUME TypeOK, NEW r \in Runs, FailResponse(r)
    PROVE  /\ RunsType' /\ Others(r) /\ SameResponse(r) /\ SameConsumer(r)
           /\ run[r].at \in {"request", "streaming"} /\ run'[r].at = "ended" /\ run'[r].closed = "failed"
           /\ run'[r].ctx = run[r].ctx /\ run'[r].events = run[r].events
           /\ run'[r].hasMore = run[r].hasMore
<1>1. RunsType /\ run[r] \in RunType
  BY DEF TypeOK, RunsType
<1>2. PICK t : t = [run[r] EXCEPT !.closed = "failed", !.at = "ended"]
  OBVIOUS
<1>3. t \in RunType
  BY <1>1, <1>2 DEF RunType
<1>4. run[r].at \in {"request", "streaming"} /\ run' = [run EXCEPT ![r] = t]
  BY <1>1, <1>2 DEF FailResponse, RunsType, RunType
<1>5. RunsType' /\ Others(r) /\ run'[r] = t
  BY <1>1, <1>3, <1>4, OneRun
<1>6. /\ t.at = "ended" /\ t.closed = "failed" /\ t.ctx = run[r].ctx /\ t.events = run[r].events
      /\ t.hasMore = run[r].hasMore /\ t.turn = run[r].turn /\ t.calls = run[r].calls
      /\ t.answered = run[r].answered /\ t.consumer = run[r].consumer /\ t.partial = run[r].partial
  BY <1>1, <1>2 DEF RunType
<1>7. QED BY <1>4, <1>5, <1>6 DEF SameResponse, SameConsumer

LEMMA LeakResponseShape ==
    ASSUME TypeOK, NEW r \in Runs, LeakResponse(r), run[r].ctx # << >>
    PROVE  /\ RunsType' /\ Others(r) /\ SameResponse(r) /\ SameConsumer(r)
           /\ run[r].at = "streaming"
           /\ run'[r].ctx = Front(run[r].ctx) /\ run'[r].events = run[r].events
           /\ run'[r].hasMore = run[r].hasMore
           /\ \/ run'[r].at = "ended" /\ run'[r].closed = "failed"
              \/ /\ run'[r].at \in {"turn", "yield"} /\ run'[r].closed = run[r].closed
                 /\ run[r].hasMore => run'[r].at = "turn"
<1>1. RunsType /\ run[r] \in RunType
  BY DEF TypeOK, RunsType
<1>2. PICK c \in Seq(MessageType) : c = Front(run[r].ctx)
  <2>1. Front(run[r].ctx) \in Seq(MessageType)
    BY <1>1, RunFields, FrontType
  <2>2. QED BY <2>1
<1>3. run[r].at = "streaming"
  BY DEF LeakResponse
<1>4. CASE run[r].retry >= 2
  <2>1. PICK t : t = [run[r] EXCEPT !.ctx = c, !.closed = "failed", !.at = "ended"]
    OBVIOUS
  <2>2. t \in RunType
    BY <1>1, <2>1 DEF RunType
  <2>3. run' = [run EXCEPT ![r] = t]
    BY <1>1, <1>2, <1>4, <2>1 DEF LeakResponse, DropPartial, RunsType, RunType
  <2>4. RunsType' /\ Others(r) /\ run'[r] = t
    BY <1>1, <2>2, <2>3, OneRun
  <2>5. /\ t.at = "ended" /\ t.closed = "failed" /\ t.ctx = c /\ t.events = run[r].events
        /\ t.hasMore = run[r].hasMore /\ t.turn = run[r].turn /\ t.calls = run[r].calls
        /\ t.answered = run[r].answered /\ t.consumer = run[r].consumer /\ t.partial = run[r].partial
    BY <1>1, <2>1 DEF RunType
  <2>6. QED BY <1>2, <1>3, <2>4, <2>5 DEF SameResponse, SameConsumer
<1>5. CASE ~(run[r].retry >= 2)
  <2>1. PICK a : a = IF Loops(run[r].hasMore, run[r].pending) THEN "turn" ELSE "yield"
    OBVIOUS
  <2>2. a \in {"turn", "yield"} /\ (run[r].hasMore => a = "turn")
    BY <2>1 DEF Loops
  <2>3. PICK n \in 0..2 : n = run[r].retry + 1
    <3>1. run[r].retry \in 0..2
      BY <1>1, RunFields
    <3>2. QED BY <1>5, <3>1
  <2>4. PICK t : t = [run[r] EXCEPT !.ctx = c, !.retry = n, !.at = a]
    OBVIOUS
  <2>5. t \in RunType
    BY <1>1, <2>2, <2>4 DEF RunType
  <2>6. run' = [run EXCEPT ![r] = t]
    BY <1>1, <1>2, <1>5, <2>1, <2>3, <2>4 DEF LeakResponse, DropPartial, RunsType, RunType
  <2>7. RunsType' /\ Others(r) /\ run'[r] = t
    BY <1>1, <2>5, <2>6, OneRun
  <2>8. /\ t.at = a /\ t.closed = run[r].closed /\ t.ctx = c /\ t.events = run[r].events
        /\ t.hasMore = run[r].hasMore /\ t.turn = run[r].turn /\ t.calls = run[r].calls
        /\ t.answered = run[r].answered /\ t.consumer = run[r].consumer /\ t.partial = run[r].partial
    BY <1>1, <2>4 DEF RunType
  <2>9. QED BY <1>2, <1>3, <2>2, <2>7, <2>8 DEF SameResponse, SameConsumer
<1>6. QED BY <1>4, <1>5

LEMMA AnswerCallShape ==
    ASSUME TypeOK, NEW r \in Runs, AnswerCall(r)
    PROVE  /\ RunsType' /\ Others(r) /\ SameConsumer(r)
           /\ run[r].at = "tools" /\ run'[r].at = "tools"
           /\ run'[r].ctx = run[r].ctx /\ run'[r].hasMore = run[r].hasMore
           /\ run'[r].closed = run[r].closed
           /\ run'[r].turn = run[r].turn /\ run'[r].calls = run[r].calls
           /\ \E k \in CallNumbers :
                 /\ k \in 1..run[r].calls /\ k \notin ToSet(run[r].answered)
                 /\ ToolResult(run[r].turn, k) \in MessageType
                 /\ run'[r].events = run[r].events \o Ends(<<ToolResult(run[r].turn, k)>>)
                 /\ run'[r].answered = Append(run[r].answered, k)
<1>1. RunsType /\ run[r] \in RunType
  BY DEF TypeOK, RunsType
<1>2. PICK looks \in BOOLEAN : looks = (interruptMode # "wait" /\ run[r].steering = << >>)
  <2>1. (interruptMode # "wait" /\ run[r].steering = << >>) \in BOOLEAN
    OBVIOUS
  <2>2. QED BY <2>1
<1>3. PICK st : st = IF looks THEN Taken(steeringQueue) ELSE run[r].steering
  OBVIOUS
<1>4. st \in Seq(Numbers)
  <2>1. Taken(steeringQueue) \in Seq(Numbers)
    BY TakenType DEF TypeOK
  <2>2. QED BY <1>1, <1>3, <2>1, RunFields
<1>5. PICK k \in (1..run[r].calls) \ ToSet(run[r].answered) :
        run' = [run EXCEPT ![r].events = @ \o Ends(<<ToolResult(run[r].turn, k)>>),
                           ![r].answered = Append(@, k),
                           ![r].steering = IF looks THEN Taken(steeringQueue) ELSE @]
  BY <1>2 DEF AnswerCall
<1>6. k \in CallNumbers
  <2>1. run[r].calls \in 0..MaxCalls
    BY <1>1, RunFields
  <2>2. QED BY <2>1, BoundsAssumption DEF CallNumbers
<1>7. ToolResult(run[r].turn, k) \in MessageType
  <2>1. run[r].turn \in 0..MaxTurns
    BY <1>1, RunFields
  <2>2. QED BY <1>6, <2>1, MessageTypes
<1>8. PICK es \in Seq(EventType) : es = Ends(<<ToolResult(run[r].turn, k)>>)
  <2>1. <<ToolResult(run[r].turn, k)>> \in Seq(MessageType)
    BY <1>7
  <2>2. Ends(<<ToolResult(run[r].turn, k)>>) \in Seq(EventType)
    BY <2>1, EndsType
  <2>3. QED BY <2>2
<1>9. PICK fs \in Seq(EventType) : fs = run[r].events \o es
  <2>1. run[r].events \o es \in Seq(EventType)
    BY <1>1, RunFields, ConcatShape
  <2>2. QED BY <2>1
<1>10. PICK ks \in Seq(CallNumbers) : ks = Append(run[r].answered, k)
  <2>1. run[r].answered \in Seq(CallNumbers)
    BY <1>1, RunFields
  <2>2. Append(run[r].answered, k) \in Seq(CallNumbers)
    BY <1>6, <2>1, AppendProperties
  <2>3. QED BY <2>2
<1>11. PICK t : t = [run[r] EXCEPT !.events = fs, !.answered = ks, !.steering = st]
  OBVIOUS
<1>12. t \in RunType
  BY <1>1, <1>4, <1>11 DEF RunType
<1>13. run' = [run EXCEPT ![r] = t]
  BY <1>1, <1>3, <1>5, <1>8, <1>9, <1>10, <1>11 DEF RunsType, RunType
<1>14. RunsType' /\ Others(r) /\ run'[r] = t
  BY <1>1, <1>12, <1>13, OneRun
<1>15. /\ t.at = run[r].at /\ t.closed = run[r].closed /\ t.ctx = run[r].ctx /\ t.events = fs
       /\ t.hasMore = run[r].hasMore /\ t.turn = run[r].turn /\ t.calls = run[r].calls
       /\ t.answered = ks /\ t.consumer = run[r].consumer /\ t.partial = run[r].partial
  BY <1>1, <1>11 DEF RunType
<1>16. run[r].at = "tools"
  BY DEF AnswerCall
<1>17. QED BY <1>5, <1>6, <1>7, <1>8, <1>9, <1>10, <1>14, <1>15, <1>16 DEF SameConsumer

LEMMA EndToolsShape ==
    ASSUME TypeOK, NEW r \in Runs, EndTools(r)
    PROVE  /\ RunsType' /\ Others(r) /\ SameConsumer(r)
           /\ run[r].at = "tools" /\ run'[r].at \in {"turn", "poll"}
           /\ Len(run[r].answered) = run[r].calls
           /\ run'[r].ctx = run[r].ctx \o Results(run[r].turn, run[r].answered)
           /\ run'[r].answered = << >>
           /\ run'[r].events = run[r].events /\ run'[r].hasMore = run[r].hasMore
           /\ run'[r].closed = run[r].closed
           /\ run'[r].turn = run[r].turn /\ run'[r].calls = run[r].calls
<1>1. RunsType /\ run[r] \in RunType
  BY DEF TypeOK, RunsType
<1>2. PICK a : a = IF run[r].steering # << >> THEN "turn" ELSE "poll"
  OBVIOUS
<1>3. a \in {"turn", "poll"}
  BY <1>2
<1>4. PICK c \in Seq(MessageType) : c = run[r].ctx \o Results(run[r].turn, run[r].answered)
  <2>1. Results(run[r].turn, run[r].answered) \in Seq(MessageType)
    BY <1>1, RunFields, ResultsType
  <2>2. run[r].ctx \o Results(run[r].turn, run[r].answered) \in Seq(MessageType)
    BY <1>1, <2>1, RunFields, ConcatShape
  <2>3. QED BY <2>2
<1>5. PICK t : t = [run[r] EXCEPT !.ctx = c, !.pending = run[r].steering, !.answered = << >>,
                                  !.steering = << >>, !.at = a]
  OBVIOUS
<1>6. t \in RunType
  <2>1. << >> \in Seq(Numbers) /\ << >> \in Seq(CallNumbers)
    OBVIOUS
  <2>2. QED BY <1>1, <1>3, <1>5, <2>1 DEF RunType
<1>7. /\ run[r].at = "tools" /\ Len(run[r].answered) = run[r].calls
      /\ run' = [run EXCEPT ![r] = t]
  BY <1>1, <1>2, <1>4, <1>5 DEF EndTools, RunsType, RunType
<1>8. RunsType' /\ Others(r) /\ run'[r] = t
  BY <1>1, <1>6, <1>7, OneRun
<1>9. /\ t.at = a /\ t.closed = run[r].closed /\ t.ctx = c /\ t.events = run[r].events
      /\ t.hasMore = run[r].hasMore /\ t.turn = run[r].turn /\ t.calls = run[r].calls
      /\ t.answered = << >> /\ t.consumer = run[r].consumer /\ t.partial = run[r].partial
  BY <1>1, <1>5 DEF RunType
<1>10. QED BY <1>3, <1>4, <1>7, <1>8, <1>9 DEF SameConsumer

LEMMA YieldShape ==
    ASSUME TypeOK, NEW r \in Runs, Yield(r)
    PROVE  /\ RunsType' /\ Others(r) /\ SameResponse(r) /\ SameConsumer(r)
           /\ run[r].at = "yield" /\ run'[r].ctx = run[r].ctx
           /\ \/ /\ run'[r].at = "turn" /\ run'[r].hasMore = TRUE
                 /\ run'[r].closed = run[r].closed /\ run'[r].events = run[r].events
              \/ /\ run'[r].at = "ended" /\ run'[r].hasMore = run[r].hasMore
                 /\ run'[r].closed = "ended" /\ run'[r].events = run[r].events \o AgentEnd
<1>1. RunsType /\ run[r] \in RunType
  BY DEF TypeOK, RunsType
<1>2. PICK got \in Seq(Numbers) : got = Taken(followUpQueue)
  <2>1. Taken(followUpQueue) \in Seq(Numbers)
    BY TakenType DEF TypeOK
  <2>2. QED BY <2>1
<1>3. run[r].at = "yield"
  BY DEF Yield
<1>4. CASE got # << >>
  <2>1. PICK t : t = [run[r] EXCEPT !.pending = got, !.hasMore = TRUE, !.at = "turn"]
    OBVIOUS
  <2>2. t \in RunType
    BY <1>1, <2>1 DEF RunType
  <2>3. run' = [run EXCEPT ![r] = t]
    BY <1>1, <1>2, <1>4, <2>1 DEF Yield, RunsType, RunType
  <2>4. RunsType' /\ Others(r) /\ run'[r] = t
    BY <1>1, <2>2, <2>3, OneRun
  <2>5. /\ t.at = "turn" /\ t.closed = run[r].closed /\ t.ctx = run[r].ctx /\ t.events = run[r].events
        /\ t.hasMore = TRUE /\ t.turn = run[r].turn /\ t.calls = run[r].calls
        /\ t.answered = run[r].answered /\ t.consumer = run[r].consumer /\ t.partial = run[r].partial
    BY <1>1, <2>1 DEF RunType
  <2>6. QED BY <1>3, <2>4, <2>5 DEF SameResponse, SameConsumer
<1>5. CASE got = << >>
  <2>1. PICK fs \in Seq(EventType) : fs = run[r].events \o AgentEnd
    <3>1. [kind |-> "agentEnd", message |-> NoMessage] \in EventType
      BY MessageTypes, EventFields
    <3>2. AgentEnd \in Seq(EventType)
      BY <3>1 DEF AgentEnd
    <3>3. run[r].events \o AgentEnd \in Seq(EventType)
      BY <1>1, <3>2, RunFields, ConcatShape
    <3>4. QED BY <3>3
  <2>2. PICK t : t = [run[r] EXCEPT !.events = fs, !.closed = "ended", !.at = "ended"]
    OBVIOUS
  <2>3. t \in RunType
    BY <1>1, <2>2 DEF RunType
  <2>4. run' = [run EXCEPT ![r] = t]
    BY <1>1, <1>2, <1>5, <2>1, <2>2 DEF Yield, RunsType, RunType
  <2>5. RunsType' /\ Others(r) /\ run'[r] = t
    BY <1>1, <2>3, <2>4, OneRun
  <2>6. /\ t.at = "ended" /\ t.closed = "ended" /\ t.ctx = run[r].ctx /\ t.events = fs
        /\ t.hasMore = run[r].hasMore /\ t.turn = run[r].turn /\ t.calls = run[r].calls
        /\ t.answered = run[r].answered /\ t.consumer = run[r].consumer /\ t.partial = run[r].partial
    BY <1>1, <2>2 DEF RunType
  <2>7. QED BY <1>3, <2>1, <2>5, <2>6 DEF SameResponse, SameConsumer
<1>6. QED BY <1>4, <1>5

\* The three ways to start a run; prompts are what it is started with.
LEMMA StartShape ==
    ASSUME TypeOK, Prompt \/ ContinueQueued \/ ContinueAsIs
    PROVE  /\ nextRun \in Runs /\ RunsType' /\ Others(nextRun)
           /\ nextRun' = nextRun + 1 /\ messages' = messages
           /\ crossed' = (crossed \/ \E r \in Runs : AtWork(r))
           /\ run'[nextRun].at = "poll" /\ run'[nextRun].hasMore = TRUE
           /\ run'[nextRun].closed = "open" /\ run'[nextRun].consumer = "consuming"
           /\ run'[nextRun].answered = << >> /\ run'[nextRun].calls = 0 /\ run'[nextRun].turn = 0
           /\ run'[nextRun].partial = NoMessage
           /\ \E ms \in Seq(Numbers) :
                 /\ run'[nextRun].ctx = messages \o Users(ms)
                 /\ run'[nextRun].events = Ends(Users(ms))
                 /\ \/ ms # << >>
                    \/ messages # << >> /\ Last(messages).role # "assistant"
<1>1. \E ms \in Seq(Numbers), skip \in BOOLEAN :
        /\ StartRun(ms, skip) /\ messages' = messages
        /\ \/ ms # << >>
           \/ messages # << >> /\ Last(messages).role # "assistant"
  <2>1. CASE Prompt
    <3>1. nextMessage \in Numbers
      BY <2>1, BoundsAssumption DEF Prompt, TypeOK, Numbers
    <3>2. PICK ms : ms = <<nextMessage>>
      OBVIOUS
    <3>3. ms \in Seq(Numbers) /\ ms # << >>
      BY <3>1, <3>2
    <3>4. StartRun(ms, FALSE) /\ messages' = messages
      BY <2>1, <3>2 DEF Prompt
    <3>5. QED BY <3>3, <3>4
  <2>2. CASE ContinueQueued
    <3>1. messages' = messages
      BY <2>2 DEF ContinueQueued
    <3>2. CASE steeringQueue # << >> /\ StartRun(Taken(steeringQueue), TRUE)
      <4>1. Taken(steeringQueue) \in Seq(Numbers)
        BY TakenType DEF TypeOK
      <4>2. Taken(steeringQueue) # << >>
        BY <3>2 DEF Taken
      <4>3. QED BY <3>1, <3>2, <4>1, <4>2
    <3>3. CASE followUpQueue # << >> /\ StartRun(Taken(followUpQueue), FALSE)
      <4>1. Taken(followUpQueue) \in Seq(Numbers)
        BY TakenType DEF TypeOK
      <4>2. Taken(followUpQueue) # << >>
        BY <3>3 DEF Taken
      <4>3. QED BY <3>1, <3>3, <4>1, <4>2
    <3>4. QED BY <2>2, <3>2, <3>3 DEF ContinueQueued
  <2>3. CASE ContinueAsIs
    <3>1. << >> \in Seq(Numbers)
      OBVIOUS
    <3>2. StartRun(<< >>, FALSE) /\ messages' = messages /\ messages # << >> /\ Last(messages).role # "assistant"
      BY <2>3 DEF ContinueAsIs
    <3>3. QED BY <3>1, <3>2
  <2>4. QED BY <2>1, <2>2, <2>3
<1>2. PICK ms \in Seq(Numbers), skip \in BOOLEAN :
        /\ StartRun(ms, skip) /\ messages' = messages
        /\ \/ ms # << >>
           \/ messages # << >> /\ Last(messages).role # "assistant"
  BY <1>1
<1>3. RunsType /\ messages \in Seq(MessageType)
  BY DEF TypeOK, RunsType
<1>4. PICK c \in Seq(MessageType) : c = messages \o Users(ms)
  <2>1. Users(ms) \in Seq(MessageType)
    BY UsersType
  <2>2. messages \o Users(ms) \in Seq(MessageType)
    BY <1>3, <2>1, ConcatShape
  <2>3. QED BY <2>2
<1>5. PICK es \in Seq(EventType) : es = Ends(Users(ms))
  <2>1. Ends(Users(ms)) \in Seq(EventType)
    BY UsersType, EndsType
  <2>2. QED BY <2>1
<1>6. PICK t : t = [FreshRun EXCEPT !.at = "poll", !.ctx = c, !.skipPoll = skip, !.events = es,
                                    !.consumer = "consuming"]
  OBVIOUS
<1>7. t = [at |-> "poll", ctx |-> c, pending |-> << >>, hasMore |-> TRUE,
           skipPoll |-> skip, retry |-> 0, turn |-> 0, calls |-> 0, answered |-> << >>,
           steering |-> << >>, events |-> es, closed |-> "open", consumer |-> "consuming",
           partial |-> NoMessage]
  BY <1>6 DEF FreshRun
<1>8. t \in RunType
  <2>1. << >> \in Seq(Numbers) /\ << >> \in Seq(CallNumbers)
    OBVIOUS
  <2>2. 0 \in 0..2 /\ 0 \in 0..MaxTurns /\ 0 \in 0..MaxCalls
    BY BoundsAssumption
  <2>3. NoMessage \in MessageType
    BY MessageTypes
  <2>4. QED BY <1>7, <2>1, <2>2, <2>3 DEF RunType
<1>9. /\ nextRun \in Runs /\ run' = [run EXCEPT ![nextRun] = t] /\ nextRun' = nextRun + 1
      /\ crossed' = (crossed \/ \E r \in Runs : AtWork(r))
  BY <1>2, <1>4, <1>5, <1>6 DEF StartRun
<1>10. RunsType' /\ Others(nextRun) /\ run'[nextRun] = t
  BY <1>3, <1>8, <1>9, OneRun
<1>11. /\ t.at = "poll" /\ t.hasMore = TRUE /\ t.closed = "open" /\ t.consumer = "consuming"
       /\ t.answered = << >> /\ t.calls = 0 /\ t.turn = 0 /\ t.partial = NoMessage
       /\ t.ctx = c /\ t.events = es
  BY <1>7
<1>12. QED BY <1>2, <1>4, <1>5, <1>9, <1>10, <1>11

SameLoop(r) ==
    /\ run'[r].at = run[r].at /\ run'[r].ctx = run[r].ctx /\ run'[r].hasMore = run[r].hasMore
    /\ run'[r].closed = run[r].closed /\ SameResponse(r)

LEMMA ConsumeShape ==
    ASSUME TypeOK, NEW r \in Runs, Consume(r)
    PROVE  /\ RunsType' /\ Others(r) /\ SameLoop(r)
           /\ run[r].consumer = "consuming" /\ run'[r].consumer = "consuming"
           /\ run[r].events # << >> /\ run'[r].events = Tail(run[r].events)
           /\ run[r].events[1] \in EventType /\ messages' \in Seq(MessageType)
           /\ run[r].events[1].kind = "end" =>
                 messages' = Append(messages, run[r].events[1].message) /\ run'[r].partial = NoMessage
           /\ run[r].events[1].kind = "start" =>
                 messages' = messages /\ run'[r].partial = run[r].events[1].message
           /\ run[r].events[1].kind = "agentEnd" =>
                 messages' = messages /\ run'[r].partial = run[r].partial
<1>1. RunsType /\ run[r] \in RunType /\ messages \in Seq(MessageType)
  BY DEF TypeOK, RunsType
<1>2. run[r].events \in Seq(EventType) /\ run[r].events # << >> /\ run[r].consumer = "consuming"
  BY <1>1, RunFields DEF Consume
<1>3. PICK e \in EventType : e = run[r].events[1]
  <2>1. run[r].events[1] \in EventType
    BY <1>2
  <2>2. QED BY <2>1
<1>4. Head(run[r].events) = e
  BY <1>2, <1>3
<1>5. e.kind \in {"start", "end", "agentEnd"} /\ e.message \in MessageType
  BY DEF EventType
<1>6. PICK fs \in Seq(EventType) : fs = Tail(run[r].events)
  <2>1. Tail(run[r].events) \in Seq(EventType)
    BY <1>2
  <2>2. QED BY <2>1
<1>7. PICK p : p = CASE e.kind = "start" -> e.message [] e.kind = "end" -> NoMessage [] OTHER -> run[r].partial
  OBVIOUS
<1>8. /\ e.kind = "start" => p = e.message
      /\ e.kind = "end" => p = NoMessage
      /\ e.kind = "agentEnd" => p = run[r].partial
  BY <1>7
<1>9. p \in MessageType
  <2>1. run[r].partial \in MessageType /\ NoMessage \in MessageType
    BY <1>1, RunFields, MessageTypes
  <2>2. QED BY <1>5, <1>8, <2>1
<1>10. PICK t : t = [run[r] EXCEPT !.events = fs, !.partial = p]
  OBVIOUS
<1>11. t \in RunType
  BY <1>1, <1>9, <1>10 DEF RunType
<1>12. run' = [run EXCEPT ![r] = t]
  BY <1>1, <1>4, <1>6, <1>7, <1>10 DEF Consume, RunsType, RunType
<1>13. RunsType' /\ Others(r) /\ run'[r] = t
  BY <1>1, <1>11, <1>12, OneRun
<1>14. /\ t.at = run[r].at /\ t.closed = run[r].closed /\ t.ctx = run[r].ctx /\ t.events = fs
       /\ t.hasMore = run[r].hasMore /\ t.turn = run[r].turn /\ t.calls = run[r].calls
       /\ t.answered = run[r].answered /\ t.consumer = run[r].consumer /\ t.partial = p
  BY <1>1, <1>10 DEF RunType
<1>15. messages' = IF e.kind = "end" THEN Append(messages, e.message) ELSE messages
  BY <1>4 DEF Consume
<1>16. messages' \in Seq(MessageType)
  BY <1>1, <1>5, <1>15, AppendProperties
<1>17. /\ e.kind = "end" => messages' = Append(messages, e.message) /\ run'[r].partial = NoMessage
       /\ e.kind = "start" => messages' = messages /\ run'[r].partial = e.message
       /\ e.kind = "agentEnd" => messages' = messages /\ run'[r].partial = run[r].partial
  BY <1>8, <1>13, <1>14, <1>15
<1>18. QED BY <1>2, <1>3, <1>6, <1>13, <1>14, <1>16, <1>17 DEF SameLoop, SameResponse

LEMMA SettleShape ==
    ASSUME TypeOK, NEW r \in Runs, Settle(r)
    PROVE  /\ RunsType' /\ Others(r) /\ SameLoop(r)
           /\ run[r].consumer = "consuming" /\ run'[r].consumer = "finished"
           /\ run[r].events = << >> /\ run'[r].events = << >> /\ run[r].closed # "open"
           /\ run'[r].partial = NoMessage
           /\ Leftover(r) \in Seq(MessageType) /\ messages' = messages \o Leftover(r)
           /\ messages' \in Seq(MessageType)
<1>1. RunsType /\ run[r] \in RunType /\ messages \in Seq(MessageType)
  BY DEF TypeOK, RunsType
<1>2. PICK t : t = [run[r] EXCEPT !.consumer = "finished", !.partial = NoMessage]
  OBVIOUS
<1>3. t \in RunType
  <2>1. NoMessage \in MessageType
    BY MessageTypes
  <2>2. QED BY <1>1, <1>2, <2>1 DEF RunType
<1>4. run' = [run EXCEPT ![r] = t]
  BY <1>1, <1>2 DEF Settle, RunsType, RunType
<1>5. RunsType' /\ Others(r) /\ run'[r] = t
  BY <1>1, <1>3, <1>4, OneRun
<1>6. /\ t.at = run[r].at /\ t.closed = run[r].closed /\ t.ctx = run[r].ctx /\ t.events = run[r].events
      /\ t.hasMore = run[r].hasMore /\ t.turn = run[r].turn /\ t.calls = run[r].calls
      /\ t.answered = run[r].answered /\ t.consumer = "finished" /\ t.partial = NoMessage
  BY <1>1, <1>2 DEF RunType
<1>7. PICK l \in Seq(MessageType) : l = Leftover(r)
  <2>1. run[r].partial \in MessageType
    BY <1>1, RunFields
  <2>2. Assistant(0, 0, "error") \in MessageType
    BY BoundsAssumption, MessageTypes
  <2>3. <<run[r].partial>> \in Seq(MessageType) /\ <<Assistant(0, 0, "error")>> \in Seq(MessageType)
    BY <2>1, <2>2
  <2>4. << >> \in Seq(MessageType)
    OBVIOUS
  <2>5. Leftover(r) \in Seq(MessageType)
    BY <2>3, <2>4 DEF Leftover
  <2>6. QED BY <2>5
<1>8. messages' = messages \o l
  BY <1>7 DEF Settle
<1>9. messages' \in Seq(MessageType)
  BY <1>1, <1>8, ConcatShape
<1>10. /\ run[r].consumer = "consuming" /\ run[r].events = << >> /\ run[r].closed # "open"
  BY DEF Settle
<1>11. QED BY <1>5, <1>6, <1>7, <1>8, <1>9, <1>10 DEF SameLoop, SameResponse

-----------------------------------------------------------------------------
(***************************************************************************)
(* Types and the shape of a run.                                           *)
(***************************************************************************)
RunCounter == 1..(MaxRuns + 1)
MessageCounter == 1..(MaxMessages + 1)
TurnCounter == 1..(MaxTurns + 1)
RestOK ==
    /\ interruptMode \in {"immediate", "wait"}
    /\ steeringQueue \in Seq(Numbers) /\ followUpQueue \in Seq(Numbers)
    /\ isStreaming \in BOOLEAN
    /\ controller \in Runs \cup {None} /\ runningPrompt \in Runs \cup {None}
    /\ aborted \in SUBSET Runs
    /\ nextRun \in RunCounter
    /\ nextMessage \in MessageCounter
    /\ nextTurn \in TurnCounter
    /\ withdrawn \in SUBSET Numbers
    /\ crossed \in BOOLEAN

LEMMA RestStart ==
    ASSUME TypeOK, NEW ms, NEW skip, StartRun(ms, skip)
    PROVE  /\ isStreaming' \in BOOLEAN /\ controller' \in Runs \cup {None}
           /\ runningPrompt' \in Runs \cup {None} /\ nextRun' \in RunCounter /\ crossed' \in BOOLEAN
<1>1. nextRun \in Runs /\ nextRun' = nextRun + 1
  BY DEF StartRun
<1>2. nextRun' \in RunCounter
  BY <1>1, BoundsAssumption DEF Runs, RunCounter
<1>3. isStreaming' \in BOOLEAN /\ controller' \in Runs \cup {None} /\ runningPrompt' \in Runs \cup {None}
  BY <1>1 DEF StartRun
<1>4. crossed' \in BOOLEAN
  <2>1. crossed' = (crossed \/ \E r \in Runs : AtWork(r))
    BY DEF StartRun
  <2>2. (crossed \/ \E r \in Runs : AtWork(r)) \in BOOLEAN
    OBVIOUS
  <2>3. QED BY <2>1, <2>2
<1>5. QED BY <1>2, <1>3, <1>4

LEMMA NextMessageType ==
    ASSUME TypeOK, nextMessage <= MaxMessages
    PROVE  nextMessage \in Numbers /\ nextMessage + 1 \in MessageCounter
BY BoundsAssumption DEF TypeOK, Numbers, MessageCounter

LEMMA RestStep ==
    ASSUME TypeOK, [Next]_vars
    PROVE  RestOK'
<1>1. RestOK
  BY DEF TypeOK, RestOK, RunCounter, MessageCounter, TurnCounter
<1>2. Taken(steeringQueue) \in Seq(Numbers) /\ Left(steeringQueue) \in Seq(Numbers)
  BY <1>1, TakenType DEF RestOK
<1>3. Taken(followUpQueue) \in Seq(Numbers) /\ Left(followUpQueue) \in Seq(Numbers)
  BY <1>1, TakenType DEF RestOK
<1>4. CASE Prompt
  <2>1. nextMessage \in Numbers /\ nextMessage' \in MessageCounter
    BY <1>4, NextMessageType DEF Prompt
  <2>2. StartRun(<<nextMessage>>, FALSE)
    BY <1>4 DEF Prompt
  <2>3. /\ isStreaming' \in BOOLEAN /\ controller' \in Runs \cup {None}
        /\ runningPrompt' \in Runs \cup {None} /\ nextRun' \in RunCounter /\ crossed' \in BOOLEAN
    BY <2>2, RestStart
  <2>4. QED BY <1>1, <1>4, <2>1, <2>3 DEF Prompt, RestOK
<1>5. CASE ContinueQueued
  <2>1. PICK ms, skip : StartRun(ms, skip)
    BY <1>5 DEF ContinueQueued
  <2>2. /\ isStreaming' \in BOOLEAN /\ controller' \in Runs \cup {None}
        /\ runningPrompt' \in Runs \cup {None} /\ nextRun' \in RunCounter /\ crossed' \in BOOLEAN
    BY <2>1, RestStart
  <2>3. steeringQueue' \in Seq(Numbers) /\ followUpQueue' \in Seq(Numbers)
    BY <1>1, <1>2, <1>3, <1>5 DEF ContinueQueued, RestOK
  <2>4. QED BY <1>1, <1>5, <2>2, <2>3 DEF ContinueQueued, RestOK
<1>6. CASE ContinueAsIs
  <2>1. StartRun(<< >>, FALSE)
    BY <1>6 DEF ContinueAsIs
  <2>2. /\ isStreaming' \in BOOLEAN /\ controller' \in Runs \cup {None}
        /\ runningPrompt' \in Runs \cup {None} /\ nextRun' \in RunCounter /\ crossed' \in BOOLEAN
    BY <2>1, RestStart
  <2>3. QED BY <1>1, <1>6, <2>2 DEF ContinueAsIs, RestOK
<1>7. ASSUME NEW r \in Runs, LoopStep(r) PROVE RestOK'
  <2>1. CASE PollSteering(r)
    BY <1>1, <1>2, <2>1 DEF PollSteering, RestOK, loopUnchanged
  <2>2. CASE BeginTurn(r)
    BY <1>1, <2>2 DEF BeginTurn, RestOK, loopUnchanged
  <2>3. CASE OpenResponse(r)
    <3>1. nextTurn' \in TurnCounter
      <4>1. nextTurn \in TurnCounter /\ nextTurn <= MaxTurns /\ nextTurn' = nextTurn + 1
        BY <1>1, <2>3 DEF OpenResponse, RestOK
      <4>2. MaxTurns \in Nat
        BY BoundsAssumption
      <4>3. QED BY ONLY <4>1, <4>2 DEF TurnCounter
    <3>2. QED BY <1>1, <2>3, <3>1 DEF OpenResponse, RestOK, loopUnchanged
  <2>4. CASE CompleteResponse(r)
    BY <1>1, <2>4 DEF CompleteResponse, RestOK, loopUnchanged
  <2>5. CASE AbortResponse(r)
    BY <1>1, <2>5 DEF AbortResponse, RestOK, loopUnchanged
  <2>6. CASE FailResponse(r)
    BY <1>1, <2>6 DEF FailResponse, RestOK, loopUnchanged
  <2>7. CASE LeakResponse(r)
    BY <1>1, <2>7 DEF LeakResponse, RestOK, loopUnchanged
  <2>8. CASE AnswerCall(r)
    BY <1>1, <1>2, <2>8 DEF AnswerCall, RestOK, loopUnchanged
  <2>9. CASE EndTools(r)
    BY <1>1, <2>9 DEF EndTools, RestOK, loopUnchanged
  <2>10. CASE Yield(r)
    BY <1>1, <1>3, <2>10 DEF Yield, RestOK, loopUnchanged
  <2>11. QED
    BY <1>7, <2>1, <2>2, <2>3, <2>4, <2>5, <2>6, <2>7, <2>8, <2>9, <2>10 DEF LoopStep
<1>8. ASSUME NEW r \in Runs, Consume(r) PROVE RestOK'
  <2>1. isStreaming' = (isStreaming /\ ~StopsStreaming(Head(run[r].events)))
    BY <1>8 DEF Consume
  <2>2. (isStreaming /\ ~StopsStreaming(Head(run[r].events))) \in BOOLEAN
    OBVIOUS
  <2>3. isStreaming' \in BOOLEAN
    BY <2>1, <2>2
  <2>4. QED BY <1>1, <1>8, <2>3 DEF Consume, RestOK
<1>9. ASSUME NEW r \in Runs, Settle(r) PROVE RestOK'
  BY <1>1, <1>9 DEF Settle, RestOK, None
<1>10. CASE Steer
  <2>1. nextMessage \in Numbers /\ nextMessage' \in MessageCounter
    BY <1>10, NextMessageType DEF Steer
  <2>2. steeringQueue' \in Seq(Numbers)
    BY <1>1, <1>10, <2>1 DEF Steer, RestOK
  <2>3. QED BY <1>1, <1>10, <2>1, <2>2 DEF Steer, RestOK, userUnchanged
<1>11. CASE FollowUp
  <2>1. nextMessage \in Numbers /\ nextMessage' \in MessageCounter
    BY <1>11, NextMessageType DEF FollowUp
  <2>2. followUpQueue' \in Seq(Numbers)
    BY <1>1, <1>11, <2>1 DEF FollowUp, RestOK
  <2>3. QED BY <1>1, <1>11, <2>1, <2>2 DEF FollowUp, RestOK, userUnchanged
<1>12. CASE PopLastSteer
  <2>1. Front(steeringQueue) \in Seq(Numbers) /\ steeringQueue[Len(steeringQueue)] \in Numbers
    BY <1>1, <1>12, FrontType DEF PopLastSteer, RestOK
  <2>2. withdrawn' \in SUBSET Numbers
    BY <1>1, <1>12, <2>1 DEF PopLastSteer, RestOK, Last
  <2>3. QED BY <1>1, <1>12, <2>1, <2>2 DEF PopLastSteer, RestOK, userUnchanged
<1>13. CASE PopLastFollowUp
  <2>1. Front(followUpQueue) \in Seq(Numbers) /\ followUpQueue[Len(followUpQueue)] \in Numbers
    BY <1>1, <1>13, FrontType DEF PopLastFollowUp, RestOK
  <2>2. withdrawn' \in SUBSET Numbers
    BY <1>1, <1>13, <2>1 DEF PopLastFollowUp, RestOK, Last
  <2>3. QED BY <1>1, <1>13, <2>1, <2>2 DEF PopLastFollowUp, RestOK, userUnchanged
<1>14. CASE ClearAllQueues
  <2>1. << >> \in Seq(Numbers)
    OBVIOUS
  <2>2. PICK q \in Seq(Numbers) : q = steeringQueue \o followUpQueue
    <3>1. steeringQueue \o followUpQueue \in Seq(Numbers)
      BY <1>1, ConcatShape DEF RestOK
    <3>2. QED BY <3>1
  <2>3. ToSet(q) \subseteq Numbers
    BY DEF ToSet
  <2>4. withdrawn' \in SUBSET Numbers
    BY <1>1, <1>14, <2>2, <2>3 DEF ClearAllQueues, RestOK
  <2>5. QED BY <1>1, <1>14, <2>1, <2>4 DEF ClearAllQueues, RestOK, userUnchanged
<1>15. CASE Abort
  BY <1>1, <1>15 DEF Abort, RestOK, userUnchanged, None
<1>16. CASE UNCHANGED vars
  BY <1>1, <1>16 DEF RestOK
<1>17. QED
  BY <1>4, <1>5, <1>6, <1>7, <1>8, <1>9, <1>10, <1>11, <1>12, <1>13, <1>14, <1>15, <1>16 DEF Next, Idle

\* Where a run is, and whether it has been started or is over.
Phases(r) ==
    /\ run[r].at = "idle" <=> ~(r < nextRun)
    /\ run[r].at = "idle" <=> run[r].consumer = "none"
    /\ run[r].consumer = "finished" => run[r].at = "ended"
    /\ run[r].at = "ended" <=> run[r].closed # "open"
\* The calls that have a result: some of the response's, each once.
CallsOnce(r) ==
    /\ run[r].at # "tools" => run[r].answered = << >>
    /\ IsInjective(run[r].answered)
    /\ ToSet(run[r].answered) \subseteq 1..run[r].calls
\* The response in the making, or being executed, is the end of the context.
LastIs(r, m) == run[r].ctx # << >> /\ run[r].ctx[Len(run[r].ctx)] = m
InTheMaking(r) ==
    /\ run[r].at = "streaming" => LastIs(r, Assistant(run[r].turn, run[r].calls, "partial"))
    /\ run[r].at = "tools" => LastIs(r, Assistant(run[r].turn, run[r].calls, "stop")) /\ run[r].hasMore
LoopInv == \A r \in Runs : Phases(r) /\ CallsOnce(r) /\ InTheMaking(r)

LEMMA LastOfAppend ==
    ASSUME NEW S, NEW s \in Seq(S), NEW e \in S
    PROVE  Append(s, e) # << >> /\ Append(s, e)[Len(Append(s, e))] = e /\ Append(s, e) \o << >> = Append(s, e)
<1>1. PICK t \in Seq(S) : t = Append(s, e)
  <2>1. Append(s, e) \in Seq(S)
    BY AppendProperties
  <2>2. QED BY <2>1
<1>2. Len(t) = Len(s) + 1 /\ t[Len(s) + 1] = e
  BY <1>1, AppendProperties
<1>3. t # << >> /\ t[Len(t)] = e
  BY <1>2
<1>4. t \o << >> = t
  BY <1>1, ConcatEmptySeq
<1>5. QED BY <1>1, <1>3, <1>4

LEMMA LoopStepUnchanged ==
    ASSUME NEW r \in Runs, LoopStep(r)
    PROVE  /\ messages' = messages /\ nextRun' = nextRun /\ crossed' = crossed
           /\ nextMessage' = nextMessage
BY DEF LoopStep, PollSteering, BeginTurn, OpenResponse, CompleteResponse, AbortResponse, FailResponse,
       LeakResponse, AnswerCall, EndTools, Yield, loopUnchanged

LEMMA PhaseStep ==
    ASSUME TypeOK, LoopInv, NEW r \in Runs, LoopStep(r)
    PROVE  RunsType' /\ Others(r) /\ Phases(r)' /\ SameConsumer(r)
<1>1. Phases(r) /\ InTheMaking(r) /\ nextRun' = nextRun
  BY LoopStepUnchanged DEF LoopInv
<1>2. CASE PollSteering(r)
  BY <1>1, <1>2, PollSteeringShape DEF Phases, SameConsumer
<1>3. CASE BeginTurn(r)
  BY <1>1, <1>3, BeginTurnShape DEF Phases, SameConsumer
<1>4. CASE OpenResponse(r)
  BY <1>1, <1>4, OpenResponseShape DEF Phases, SameConsumer
<1>5. CASE CompleteResponse(r) \/ AbortResponse(r)
  <2>1. run[r].at = "streaming" => run[r].ctx # << >>
    BY <1>1 DEF InTheMaking, LastIs
  <2>2. PICK base \in Seq(MessageType), opening \in Seq(EventType), x \in 0..MaxTurns, n \in 0..MaxCalls,
             stop \in {"stop", "length", "error", "aborted"} :
               /\ Finalize(r, base, opening, Assistant(x, n, stop))
               /\ run[r].at \in {"streaming", "request"}
    BY <1>5, <2>1, ResponseEndsShape
  <2>3. RunsType' /\ Others(r) /\ SameConsumer(r)
    BY <2>2, FinalizeShape
  <2>4. \/ run'[r].at \in {"tools", "poll"} /\ run'[r].closed = run[r].closed
        \/ run'[r].at = "ended" /\ run'[r].closed = "ended"
    BY <2>2, FinalizeShape DEF Finalized
  <2>5. QED BY <1>1, <2>2, <2>3, <2>4 DEF Phases, SameConsumer
<1>6. CASE FailResponse(r)
  BY <1>1, <1>6, FailResponseShape DEF Phases, SameConsumer
<1>7. CASE LeakResponse(r)
  <2>1. run[r].ctx # << >>
    BY <1>1, <1>7 DEF LeakResponse, InTheMaking, LastIs
  <2>2. QED BY <1>1, <1>7, <2>1, LeakResponseShape DEF Phases, SameConsumer
<1>8. CASE AnswerCall(r)
  BY <1>1, <1>8, AnswerCallShape DEF Phases, SameConsumer
<1>9. CASE EndTools(r)
  BY <1>1, <1>9, EndToolsShape DEF Phases, SameConsumer
<1>10. CASE Yield(r)
  BY <1>1, <1>10, YieldShape DEF Phases, SameConsumer
<1>11. QED
  BY <1>2, <1>3, <1>4, <1>5, <1>6, <1>7, <1>8, <1>9, <1>10 DEF LoopStep

LEMMA NewCall ==
    ASSUME NEW n, NEW ks \in Seq(CallNumbers), IsInjective(ks), ToSet(ks) \subseteq 1..n,
           NEW k \in CallNumbers, k \in 1..n, k \notin ToSet(ks)
    PROVE  IsInjective(Append(ks, k)) /\ ToSet(Append(ks, k)) \subseteq 1..n
<1>1. PICK t : t = Append(ks, k)
  OBVIOUS
<1>2. PICK m \in Nat : m = Len(ks)
  OBVIOUS
<1>3. /\ t \in Seq(CallNumbers) /\ DOMAIN t = 1..(m + 1)
      /\ \A i \in 1..m : t[i] = ks[i]
      /\ t[m + 1] = k
  BY <1>1, <1>2, AppendProperties
<1>4. \A i \in 1..m : ks[i] # k /\ ks[i] \in 1..n
  BY <1>2 DEF ToSet
<1>5. \A i, j \in 1..m : ks[i] = ks[j] => i = j
  BY <1>2 DEF IsInjective
<1>6. \A i \in 1..(m + 1) : i \in 1..m \/ i = m + 1
  OBVIOUS
<1>7. \A i, j \in 1..(m + 1) : t[i] = t[j] => i = j
  BY <1>3, <1>4, <1>5, <1>6
<1>8. \A i \in 1..(m + 1) : t[i] \in 1..n
  BY <1>3, <1>4, <1>6
<1>9. QED BY <1>1, <1>3, <1>7, <1>8 DEF IsInjective, ToSet

LEMMA NoCalls == ASSUME NEW n PROVE IsInjective(<< >>) /\ ToSet(<< >>) \subseteq 1..n
BY DEF IsInjective, ToSet

LEMMA CallsStep ==
    ASSUME TypeOK, LoopInv, NEW r \in Runs, LoopStep(r)
    PROVE  CallsOnce(r)'
<1>1. CallsOnce(r) /\ InTheMaking(r)
  BY DEF LoopInv
<1>2. CASE PollSteering(r)
  BY <1>1, <1>2, PollSteeringShape DEF CallsOnce, SameResponse
<1>3. CASE BeginTurn(r)
  BY <1>1, <1>3, BeginTurnShape DEF CallsOnce, SameResponse
<1>4. CASE OpenResponse(r)
  <2>1. run'[r].at # "tools" /\ run'[r].answered = << >>
    BY <1>1, <1>4, OpenResponseShape DEF CallsOnce
  <2>2. QED BY <2>1, NoCalls DEF CallsOnce
<1>5. CASE CompleteResponse(r) \/ AbortResponse(r)
  <2>1. run[r].at = "streaming" => run[r].ctx # << >>
    BY <1>1 DEF InTheMaking, LastIs
  <2>2. PICK base \in Seq(MessageType), opening \in Seq(EventType), x \in 0..MaxTurns, n \in 0..MaxCalls,
             stop \in {"stop", "length", "error", "aborted"} :
               /\ Finalize(r, base, opening, Assistant(x, n, stop))
               /\ run[r].at \in {"streaming", "request"}
    BY <1>5, <2>1, ResponseEndsShape
  <2>3. SameResponse(r)
    BY <2>2, FinalizeShape
  <2>4. run'[r].answered = << >>
    BY <1>1, <2>2, <2>3 DEF CallsOnce, SameResponse
  <2>5. QED BY <2>4, NoCalls DEF CallsOnce
<1>6. CASE FailResponse(r)
  BY <1>1, <1>6, FailResponseShape DEF CallsOnce, SameResponse
<1>7. CASE LeakResponse(r)
  <2>1. run[r].ctx # << >>
    BY <1>1, <1>7 DEF LeakResponse, InTheMaking, LastIs
  <2>2. QED BY <1>1, <1>7, <2>1, LeakResponseShape DEF CallsOnce, SameResponse
<1>8. CASE AnswerCall(r)
  <2>1. PICK k \in CallNumbers :
          /\ k \in 1..run[r].calls /\ k \notin ToSet(run[r].answered)
          /\ run'[r].answered = Append(run[r].answered, k)
    BY <1>8, AnswerCallShape
  <2>2. run'[r].calls = run[r].calls /\ run'[r].at = "tools"
    BY <1>8, AnswerCallShape
  <2>3. run[r].answered \in Seq(CallNumbers)
    <3>1. run[r] \in RunType
      BY DEF TypeOK
    <3>2. QED BY <3>1, RunFields
  <2>4. IsInjective(Append(run[r].answered, k)) /\ ToSet(Append(run[r].answered, k)) \subseteq 1..run[r].calls
    BY <1>1, <2>1, <2>3, NewCall DEF CallsOnce
  <2>5. QED BY <2>1, <2>2, <2>4 DEF CallsOnce
<1>9. CASE EndTools(r)
  <2>1. run'[r].answered = << >>
    BY <1>9, EndToolsShape
  <2>2. QED BY <2>1, NoCalls DEF CallsOnce
<1>10. CASE Yield(r)
  BY <1>1, <1>10, YieldShape DEF CallsOnce, SameResponse
<1>11. QED
  BY <1>2, <1>3, <1>4, <1>5, <1>6, <1>7, <1>8, <1>9, <1>10 DEF LoopStep

LEMMA MakingStep ==
    ASSUME TypeOK, LoopInv, NEW r \in Runs, LoopStep(r)
    PROVE  InTheMaking(r)'
<1>1. InTheMaking(r)
  BY DEF LoopInv
<1>2. run[r] \in RunType /\ run[r].ctx \in Seq(MessageType)
  <2>1. run[r] \in RunType
    BY DEF TypeOK
  <2>2. QED BY <2>1, RunFields
<1>3. CASE PollSteering(r) \/ BeginTurn(r) \/ FailResponse(r) \/ EndTools(r) \/ Yield(r)
  <2>1. run'[r].at \notin {"streaming", "tools"}
    BY <1>3, PollSteeringShape, BeginTurnShape, FailResponseShape, EndToolsShape, YieldShape
  <2>2. QED BY <2>1 DEF InTheMaking
<1>4. CASE OpenResponse(r)
  <2>1. run'[r].at = "streaming"
    BY <1>4, OpenResponseShape
  <2>2. PICK n \in 0..MaxCalls :
          /\ run'[r].ctx = Append(run[r].ctx, Assistant(nextTurn, n, "partial"))
          /\ run'[r].turn = nextTurn /\ run'[r].calls = n
          /\ Assistant(nextTurn, n, "partial") \in MessageType
    BY <1>4, OpenResponseShape
  <2>3. /\ run'[r].ctx # << >>
        /\ run'[r].ctx[Len(run'[r].ctx)] = Assistant(nextTurn, n, "partial")
    BY <1>2, <2>2, LastOfAppend
  <2>4. QED BY <2>1, <2>2, <2>3 DEF InTheMaking, LastIs
<1>5. CASE CompleteResponse(r) \/ AbortResponse(r)
  <2>1. run[r].at = "streaming" => run[r].ctx # << >>
    BY <1>1 DEF InTheMaking, LastIs
  <2>2. PICK base \in Seq(MessageType), opening \in Seq(EventType), x \in 0..MaxTurns, n \in 0..MaxCalls,
             stop \in {"stop", "length", "error", "aborted"} :
               /\ Finalize(r, base, opening, Assistant(x, n, stop))
               /\ stop = "aborted" \/ (x = run[r].turn /\ n = run[r].calls)
    BY <1>5, <2>1, ResponseEndsShape
  <2>3. SameResponse(r)
    BY <2>2, FinalizeShape
  <2>4. \/ run'[r].at \in {"poll", "ended"}
        \/ /\ run'[r].at = "tools" /\ run'[r].hasMore = TRUE /\ stop = "stop"
           /\ run'[r].ctx = Append(base, Assistant(x, n, stop)) \o << >>
           /\ Assistant(x, n, stop) \in MessageType
    <3>1. Finalize(r, base, opening, Assistant(x, n, stop))
      BY <2>2
    <3>2. PICK ph \in Seq(MessageType), tl \in Seq(EventType) : Finalized(r, base, opening, x, n, stop, ph, tl)
      BY <3>1, FinalizeShape
    <3>3. QED BY <3>2 DEF Finalized
  <2>5. CASE run'[r].at \in {"poll", "ended"}
    BY <2>5 DEF InTheMaking
  <2>6. CASE /\ run'[r].at = "tools" /\ run'[r].hasMore = TRUE /\ stop = "stop"
             /\ run'[r].ctx = Append(base, Assistant(x, n, stop)) \o << >>
             /\ Assistant(x, n, stop) \in MessageType
    <3>1. x = run'[r].turn /\ n = run'[r].calls
      BY <2>2, <2>3, <2>6 DEF SameResponse
    <3>2. run'[r].ctx # << >> /\ run'[r].ctx[Len(run'[r].ctx)] = Assistant(x, n, stop)
      BY <2>6, LastOfAppend
    <3>3. QED BY <2>6, <3>1, <3>2 DEF InTheMaking, LastIs
  <2>7. QED BY <2>4, <2>5, <2>6
<1>6. CASE LeakResponse(r)
  <2>1. run[r].ctx # << >>
    BY <1>1, <1>6 DEF LeakResponse, InTheMaking, LastIs
  <2>2. run'[r].at \notin {"streaming", "tools"}
    BY <1>6, <2>1, LeakResponseShape
  <2>3. QED BY <2>2 DEF InTheMaking
<1>7. CASE AnswerCall(r)
  BY <1>1, <1>7, AnswerCallShape DEF InTheMaking, LastIs
<1>8. QED
  BY <1>3, <1>4, <1>5, <1>6, <1>7 DEF LoopStep

LEMMA OthersInv ==
    ASSUME NEW r \in Runs, NEW q \in Runs, q # r, Others(r), nextRun' = nextRun, LoopInv
    PROVE  (Phases(q) /\ CallsOnce(q) /\ InTheMaking(q))'
<1>1. run'[q] = run[q] /\ Phases(q) /\ CallsOnce(q) /\ InTheMaking(q)
  BY DEF Others, LoopInv
<1>2. Phases(q)'
  BY <1>1 DEF Phases
<1>3. CallsOnce(q)'
  BY <1>1 DEF CallsOnce
<1>4. InTheMaking(q)'
  BY <1>1 DEF InTheMaking, LastIs
<1>5. QED BY <1>2, <1>3, <1>4

LEMMA SameLoopInv ==
    ASSUME NEW r \in Runs, SameLoop(r), LoopInv
    PROVE  (CallsOnce(r) /\ InTheMaking(r))'
<1>1. CallsOnce(r) /\ InTheMaking(r)
  BY DEF LoopInv
<1>2. CallsOnce(r)'
  BY <1>1 DEF CallsOnce, SameLoop, SameResponse
<1>3. InTheMaking(r)'
  BY <1>1 DEF InTheMaking, LastIs, SameLoop, SameResponse
<1>4. QED BY <1>2, <1>3

LEMMA StartInv ==
    ASSUME TypeOK, LoopInv, Prompt \/ ContinueQueued \/ ContinueAsIs
    PROVE  LoopInv'
<1>0. PICK s \in Runs : s = nextRun
  BY StartShape
<1>1. /\ Others(s) /\ nextRun' = s + 1
      /\ run'[s].at = "poll" /\ run'[s].closed = "open"
      /\ run'[s].consumer = "consuming" /\ run'[s].answered = << >>
  BY <1>0, StartShape
<1>2. \A q \in Runs : q \in Nat
  BY BoundsAssumption DEF Runs
<1>3. Phases(s)'
  BY <1>1, <1>2 DEF Phases
<1>4. CallsOnce(s)'
  BY <1>1, NoCalls DEF CallsOnce
<1>5. InTheMaking(s)'
  BY <1>1 DEF InTheMaking
<1>6. ASSUME NEW q \in Runs, q # s PROVE (Phases(q) /\ CallsOnce(q) /\ InTheMaking(q))'
  <2>1. run'[q] = run[q] /\ Phases(q) /\ CallsOnce(q) /\ InTheMaking(q)
    BY <1>1, <1>6 DEF Others, LoopInv
  <2>2. q < s + 1 <=> q < s
    BY <1>2, <1>6
  <2>3. Phases(q)'
    BY <1>0, <1>1, <2>1, <2>2 DEF Phases
  <2>4. CallsOnce(q)'
    BY <2>1 DEF CallsOnce
  <2>5. InTheMaking(q)'
    BY <2>1 DEF InTheMaking, LastIs
  <2>6. QED BY <2>3, <2>4, <2>5
<1>7. QED BY <1>3, <1>4, <1>5, <1>6 DEF LoopInv

LEMMA LoopInvStep ==
    ASSUME TypeOK, LoopInv, [Next]_vars
    PROVE  RunsType' /\ messages' \in Seq(MessageType) /\ LoopInv'
<1>1. RunsType /\ messages \in Seq(MessageType)
  BY DEF TypeOK, RunsType
<1>2. CASE Prompt \/ ContinueQueued \/ ContinueAsIs
  BY <1>1, <1>2, StartShape, StartInv
<1>3. ASSUME NEW r \in Runs, LoopStep(r) PROVE RunsType' /\ messages' \in Seq(MessageType) /\ LoopInv'
  <2>1. RunsType' /\ Others(r) /\ Phases(r)' /\ CallsOnce(r)' /\ InTheMaking(r)'
    BY <1>3, PhaseStep, CallsStep, MakingStep
  <2>2. messages' = messages /\ nextRun' = nextRun
    BY <1>3, LoopStepUnchanged
  <2>3. \A q \in Runs : q # r => (Phases(q) /\ CallsOnce(q) /\ InTheMaking(q))'
    BY <2>1, <2>2, OthersInv
  <2>4. LoopInv'
    BY <2>1, <2>3 DEF LoopInv
  <2>5. QED BY <1>1, <2>1, <2>2, <2>4
<1>4. ASSUME NEW r \in Runs, Consume(r) PROVE RunsType' /\ messages' \in Seq(MessageType) /\ LoopInv'
  <2>1. /\ RunsType' /\ messages' \in Seq(MessageType) /\ Others(r) /\ SameLoop(r)
        /\ run[r].consumer = "consuming" /\ run'[r].consumer = "consuming"
    BY <1>4, ConsumeShape
  <2>2. nextRun' = nextRun
    BY <1>4 DEF Consume
  <2>3. Phases(r)'
    BY <2>1, <2>2 DEF LoopInv, Phases, SameLoop
  <2>4. CallsOnce(r)' /\ InTheMaking(r)'
    BY <2>1, SameLoopInv
  <2>5. \A q \in Runs : q # r => (Phases(q) /\ CallsOnce(q) /\ InTheMaking(q))'
    BY <2>1, <2>2, OthersInv
  <2>6. QED BY <2>1, <2>3, <2>4, <2>5 DEF LoopInv
<1>5. ASSUME NEW r \in Runs, Settle(r) PROVE RunsType' /\ messages' \in Seq(MessageType) /\ LoopInv'
  <2>1. /\ RunsType' /\ messages' \in Seq(MessageType) /\ Others(r) /\ SameLoop(r)
        /\ run[r].consumer = "consuming" /\ run'[r].consumer = "finished" /\ run[r].closed # "open"
    BY <1>5, SettleShape
  <2>2. nextRun' = nextRun
    BY <1>5 DEF Settle
  <2>3. Phases(r)'
    BY <2>1, <2>2 DEF LoopInv, Phases, SameLoop
  <2>4. CallsOnce(r)' /\ InTheMaking(r)'
    BY <2>1, SameLoopInv
  <2>5. \A q \in Runs : q # r => (Phases(q) /\ CallsOnce(q) /\ InTheMaking(q))'
    BY <2>1, <2>2, OthersInv
  <2>6. QED BY <2>1, <2>3, <2>4, <2>5 DEF LoopInv
<1>6. ASSUME run' = run, messages' = messages, nextRun' = nextRun
      PROVE  RunsType' /\ messages' \in Seq(MessageType) /\ LoopInv'
  BY <1>1, <1>6 DEF RunsType, LoopInv, Phases, CallsOnce, InTheMaking, LastIs
<1>7. CASE Steer \/ FollowUp \/ PopLastSteer \/ PopLastFollowUp \/ ClearAllQueues \/ Abort
  <2>1. run' = run /\ messages' = messages /\ nextRun' = nextRun
    BY <1>7 DEF Steer, FollowUp, PopLastSteer, PopLastFollowUp, ClearAllQueues, Abort, userUnchanged
  <2>2. QED BY <1>6, <2>1
<1>8. CASE UNCHANGED vars
  BY <1>6, <1>8
<1>9. QED BY <1>2, <1>3, <1>4, <1>5, <1>7, <1>8 DEF Next, Idle

\* The types of the agent and its runs (TypeOK).
LEMMA TypeAndLoop == Spec => [](TypeOK /\ LoopInv)
<1>1. Init => TypeOK /\ LoopInv
  <2>1. SUFFICES ASSUME Init PROVE TypeOK /\ LoopInv
    OBVIOUS
  <2>2. << >> \in Seq(Numbers) /\ << >> \in Seq(CallNumbers) /\ << >> \in Seq(MessageType) /\ << >> \in Seq(EventType)
    OBVIOUS
  <2>3. 0 \in 0..2 /\ 0 \in 0..MaxTurns /\ 0 \in 0..MaxCalls
    BY BoundsAssumption
  <2>4. NoMessage \in MessageType
    BY MessageTypes
  <2>5. FreshRun \in RunType
    BY <2>2, <2>3, <2>4 DEF FreshRun, RunType
  <2>6. RunsType /\ \A r \in Runs : run[r] = FreshRun
    BY <2>1, <2>5 DEF Init, RunsType
  <2>7. RestOK
    <3>1. 1 \in RunCounter /\ 1 \in MessageCounter /\ 1 \in TurnCounter
      BY BoundsAssumption DEF RunCounter, MessageCounter, TurnCounter
    <3>2. QED BY <2>1, <2>2, <3>1 DEF Init, RestOK, None
  <2>8. nextRun = 1 /\ messages = << >>
    BY <2>1 DEF Init
  <2>9. ASSUME NEW r \in Runs PROVE Phases(r) /\ CallsOnce(r) /\ InTheMaking(r)
    <3>1. /\ run[r].at = "idle" /\ run[r].consumer = "none" /\ run[r].closed = "open"
          /\ run[r].answered = << >>
      BY <2>6 DEF FreshRun
    <3>2. ~(r < nextRun)
      BY <2>8, BoundsAssumption DEF Runs
    <3>3. Phases(r) /\ InTheMaking(r)
      BY <3>1, <3>2 DEF Phases, InTheMaking
    <3>4. CallsOnce(r)
      BY <3>1, NoCalls DEF CallsOnce
    <3>5. QED BY <3>3, <3>4
  <2>10. LoopInv
    BY <2>9 DEF LoopInv
  <2>11. TypeOK
    BY <2>2, <2>6, <2>7, <2>8, <2>10
       DEF TypeOK, RunsType, RestOK, RunCounter, MessageCounter, TurnCounter, LoopInv, CallsOnce
  <2>12. QED BY <2>10, <2>11
<1>2. TypeOK /\ LoopInv /\ [Next]_vars => TypeOK' /\ LoopInv'
  <2>1. SUFFICES ASSUME TypeOK, LoopInv, [Next]_vars PROVE TypeOK' /\ LoopInv'
    OBVIOUS
  <2>2. RunsType' /\ messages' \in Seq(MessageType) /\ LoopInv'
    BY <2>1, LoopInvStep
  <2>3. RestOK'
    BY <2>1, RestStep
  <2>4. TypeOK'
    BY <2>2, <2>3
       DEF TypeOK, RunsType, RestOK, RunCounter, MessageCounter, TurnCounter, LoopInv, CallsOnce
  <2>5. QED BY <2>2, <2>4
<1> HIDE DEF vars, queues, agentVars, counters
<1>3. QED BY <1>1, <1>2, PTL DEF Spec

\* What the agent and its runs keep is of its kind (TypeOK).
THEOREM TypeCorrect == Spec => []TypeOK
BY TypeAndLoop, PTL

-----------------------------------------------------------------------------
(***************************************************************************)
(* No request shows the model a response that did not come to its end.     *)
(***************************************************************************)
LEMMA NoPartialPrefix ==
    ASSUME NEW b \in Seq(MessageType), NEW d \in Seq(MessageType), NoPartial(b \o d)
    PROVE  NoPartial(b) /\ NoPartial(d)
<1>1. PICK c : c = b \o d
  OBVIOUS
<1>2. /\ DOMAIN c = 1..(Len(b) + Len(d))
      /\ \A i \in 1..Len(b) : c[i] = b[i]
      /\ \A i \in 1..Len(d) : c[Len(b) + i] = d[i]
  BY <1>1, ConcatShape
<1>3. PICK n \in Nat : n = Len(b)
  OBVIOUS
<1>4. PICK m \in Nat : m = Len(d)
  OBVIOUS
<1>5. (\A i \in 1..n : i \in 1..(n + m)) /\ (\A i \in 1..m : n + i \in 1..(n + m))
  OBVIOUS
<1>6. \A i \in 1..(n + m) : c[i].stop # "partial"
  BY <1>1, <1>2, <1>3, <1>4 DEF NoPartial
<1>7. (\A i \in 1..n : b[i].stop # "partial") /\ (\A i \in 1..m : d[i].stop # "partial")
  BY <1>2, <1>3, <1>4, <1>5, <1>6
<1>8. DOMAIN b = 1..n /\ DOMAIN d = 1..m
  BY <1>3, <1>4
<1>9. QED BY <1>7, <1>8 DEF NoPartial

LEMMA NoPartialOne ==
    ASSUME NEW m \in MessageType, m.stop # "partial"
    PROVE  NoPartial(<<m>>)
<1>1. PICK s : s = <<m>>
  OBVIOUS
<1>2. s[1] = m /\ \A i \in DOMAIN s : i = 1
  BY <1>1
<1>3. NoPartial(s)
  BY <1>2 DEF NoPartial
<1>4. QED BY <1>1, <1>3

LEMMA NoPartialAppend ==
    ASSUME NEW c \in Seq(MessageType), NEW m \in MessageType, NoPartial(c), m.stop # "partial"
    PROVE  NoPartial(Append(c, m))
<1>1. NoPartial(<<m>>)
  BY NoPartialOne
<1>2. PICK u : u = <<m>>
  OBVIOUS
<1>3. u \in Seq(MessageType) /\ NoPartial(u)
  BY <1>1, <1>2
<1>4. NoPartial(c \o u)
  BY <1>3, NoPartialConcat
<1>5. Append(c, m) = c \o u
  BY <1>2, AppendIsConcat
<1>6. QED BY <1>4, <1>5

LEMMA NoPartialResults ==
    ASSUME NEW t \in 0..MaxTurns, NEW ks \in Seq(CallNumbers)
    PROVE  NoPartial(Results(t, ks))
<1>1. PICK rs : rs = Results(t, ks)
  OBVIOUS
<1>2. rs \in Seq(MessageType) /\ \A i \in 1..Len(rs) : rs[i] = ToolResult(t, ks[i])
  BY <1>1, ResultsType
<1>3. ASSUME NEW i \in 1..Len(rs) PROVE rs[i].stop = "none"
  <2>1. rs[i] = ToolResult(t, ks[i])
    BY <1>2
  <2>2. QED BY <2>1 DEF ToolResult
<1>4. DOMAIN rs = 1..Len(rs)
  BY <1>2
<1>5. NoPartial(rs)
  BY <1>3, <1>4 DEF NoPartial
<1>6. QED BY <1>1, <1>5

LEMMA NoPartialAll ==
    ASSUME NEW rs \in Seq(MessageType), NEW t, NEW n, AllResults(rs, t, n)
    PROVE  NoPartial(rs)
<1>1. DOMAIN rs = 1..n
  BY DEF AllResults
<1>2. ASSUME NEW i \in 1..n PROVE rs[i].stop # "partial"
  <2>1. PICK k \in 1..n : rs[i] = ToolResult(t, k)
    BY DEF AllResults
  <2>2. QED BY <2>1 DEF ToolResult
<1>3. QED BY <1>1, <1>2 DEF NoPartial

\* The transcript only grows.
LEMMA MessagesGrow ==
    ASSUME TypeOK, [Next]_vars
    PROVE  \E l \in Seq(MessageType) : messages' = messages \o l
<1>1. messages \in Seq(MessageType)
  BY DEF TypeOK
<1>2. << >> \in Seq(MessageType) /\ messages = messages \o << >>
  BY <1>1, ConcatEmptySeq
<1>3. ASSUME NEW r \in Runs, Consume(r) PROVE \E l \in Seq(MessageType) : messages' = messages \o l
  <2>1. PICK e \in EventType : e = run[r].events[1]
    BY <1>3, ConsumeShape
  <2>2. messages' = messages \/ messages' = Append(messages, e.message)
    BY <1>3, <2>1, ConsumeShape DEF EventType
  <2>3. e.message \in MessageType
    BY EventFields
  <2>4. <<e.message>> \in Seq(MessageType) /\ Append(messages, e.message) = messages \o <<e.message>>
    BY <1>1, <2>3, AppendIsConcat
  <2>5. QED BY <1>2, <2>2, <2>4
<1>4. ASSUME NEW r \in Runs, Settle(r) PROVE \E l \in Seq(MessageType) : messages' = messages \o l
  BY <1>4, SettleShape
<1>5. ASSUME NEW r \in Runs, LoopStep(r) PROVE messages' = messages
  BY <1>5, LoopStepUnchanged
<1>6. CASE Prompt \/ ContinueQueued \/ ContinueAsIs
  BY <1>2, <1>6 DEF Prompt, ContinueQueued, ContinueAsIs
<1>7. CASE Steer \/ FollowUp \/ PopLastSteer \/ PopLastFollowUp \/ ClearAllQueues \/ Abort
  BY <1>2, <1>7 DEF Steer, FollowUp, PopLastSteer, PopLastFollowUp, ClearAllQueues, Abort, userUnchanged
<1>8. CASE UNCHANGED vars
  BY <1>2, <1>8
<1>9. QED BY <1>2, <1>3, <1>4, <1>5, <1>6, <1>7, <1>8 DEF Next, Idle

LEMMA NoPartialBefore ==
    ASSUME TypeOK, [Next]_vars, NoPartialCommitted'
    PROVE  NoPartialCommitted
<1>1. messages \in Seq(MessageType)
  BY DEF TypeOK
<1>2. PICK l \in Seq(MessageType) : messages' = messages \o l
  BY MessagesGrow
<1>3. NoPartial(messages \o l)
  BY <1>2 DEF NoPartialCommitted, NoPartial
<1>4. NoPartial(messages)
  BY <1>1, <1>3, NoPartialPrefix
<1>5. QED BY <1>4 DEF NoPartialCommitted, NoPartial

\* The context, but for the response that is being streamed.
Shown(r) == IF run[r].at = "streaming" THEN Front(run[r].ctx) ELSE run[r].ctx
ShownWhole(r) == run[r].closed # "failed" => NoPartial(Shown(r))
ShownInv == NoPartialCommitted => \A r \in Runs : ShownWhole(r)

LEMMA FrontOfMaking ==
    ASSUME TypeOK, LoopInv, NEW r \in Runs
    PROVE  /\ run[r].ctx \in Seq(MessageType)
           /\ run[r].at \in {"streaming", "tools"} => run[r].ctx # << >> /\ Front(run[r].ctx) \in Seq(MessageType)
           /\ Shown(r) \in Seq(MessageType)
<1>1. run[r].ctx \in Seq(MessageType)
  <2>1. run[r] \in RunType
    BY DEF TypeOK
  <2>2. QED BY <2>1, RunFields
<1>2. run[r].at \in {"streaming", "tools"} => run[r].ctx # << >>
  BY DEF LoopInv, InTheMaking, LastIs
<1>3. QED BY <1>1, <1>2, FrontType DEF Shown

LEMMA ShownStep ==
    ASSUME TypeOK, LoopInv, NEW r \in Runs, LoopStep(r), ShownWhole(r)
    PROVE  ShownWhole(r)'
<1>1. /\ run[r].ctx \in Seq(MessageType) /\ Shown(r) \in Seq(MessageType)
      /\ run[r].at \in {"streaming", "tools"} => run[r].ctx # << >>
  BY FrontOfMaking
<1>2. run[r].closed = "open" \/ run[r].at = "ended"
  BY DEF LoopInv, Phases
<1>3. CASE PollSteering(r)
  BY <1>3, PollSteeringShape DEF ShownWhole, Shown
<1>4. CASE BeginTurn(r)
  <2>1. /\ run[r].at = "turn" /\ run'[r].at = "request" /\ run'[r].closed = run[r].closed
        /\ \E ms \in Seq(Numbers) : run'[r].ctx = run[r].ctx \o Users(ms)
    BY <1>4, BeginTurnShape
  <2>2. PICK ms \in Seq(Numbers) : run'[r].ctx = run[r].ctx \o Users(ms)
    BY <2>1
  <2>3. Users(ms) \in Seq(MessageType) /\ NoPartial(Users(ms))
    BY UsersType, GoodUsers DEF Good
  <2>4. NoPartial(run[r].ctx)
    BY <1>2, <2>1 DEF ShownWhole, Shown
  <2>5. NoPartial(run[r].ctx \o Users(ms))
    BY <1>1, <2>3, <2>4, NoPartialConcat
  <2>6. QED BY <2>1, <2>2, <2>5 DEF ShownWhole, Shown
<1>5. CASE OpenResponse(r)
  <2>1. /\ run[r].at = "request" /\ run'[r].at = "streaming" /\ run'[r].closed = run[r].closed
        /\ \E n \in 0..MaxCalls : /\ run'[r].ctx = Append(run[r].ctx, Assistant(nextTurn, n, "partial"))
                                  /\ Assistant(nextTurn, n, "partial") \in MessageType
    BY <1>5, OpenResponseShape
  <2>2. Front(run'[r].ctx) = run[r].ctx
    BY <1>1, <2>1, FrontOfAppend
  <2>3. QED BY <2>1, <2>2 DEF ShownWhole, Shown
<1>6. CASE CompleteResponse(r) \/ AbortResponse(r)
  <2>1. PICK base \in Seq(MessageType), opening \in Seq(EventType), x \in 0..MaxTurns, n \in 0..MaxCalls,
             stop \in {"stop", "length", "error", "aborted"} :
               /\ Finalize(r, base, opening, Assistant(x, n, stop))
               /\ \/ run[r].at = "streaming" /\ base = Front(run[r].ctx)
                  \/ run[r].at = "request" /\ base = run[r].ctx
    BY <1>1, <1>6, ResponseEndsShape
  <2>2. PICK ph \in Seq(MessageType), tl \in Seq(EventType) : Finalized(r, base, opening, x, n, stop, ph, tl)
    BY <2>1, FinalizeShape
  <2>3. PICK m \in MessageType : m = Assistant(x, n, stop)
    BY <2>2 DEF Finalized
  <2>4. NoPartial(base)
    BY <1>2, <2>1 DEF ShownWhole, Shown
  <2>5. m.stop # "partial"
    BY <2>3 DEF Assistant
  <2>6. NoPartial(Append(base, m)) /\ Append(base, m) \in Seq(MessageType)
    BY <2>4, <2>5, NoPartialAppend, AppendProperties
  <2>7. NoPartial(ph)
    <3>1. ph = << >> \/ AllResults(ph, x, n)
      BY <2>2 DEF Finalized
    <3>2. NoPartial(<< >>)
      BY DEF NoPartial
    <3>3. QED BY <3>1, <3>2, NoPartialAll
  <2>8. NoPartial(Append(base, m) \o ph)
    BY <2>6, <2>7, NoPartialConcat
  <2>9. run'[r].ctx = Append(base, m) \o ph /\ run'[r].at # "streaming"
    BY <2>2, <2>3 DEF Finalized
  <2>10. QED BY <2>8, <2>9 DEF ShownWhole, Shown
<1>7. CASE FailResponse(r)
  BY <1>7, FailResponseShape DEF ShownWhole
<1>8. CASE LeakResponse(r)
  <2>1. run[r].ctx # << >> /\ run[r].at = "streaming"
    BY <1>1, <1>8 DEF LeakResponse
  <2>2. run'[r].ctx = Front(run[r].ctx) /\ run'[r].at # "streaming"
    BY <1>8, <2>1, LeakResponseShape
  <2>3. NoPartial(Front(run[r].ctx))
    BY <1>2, <2>1 DEF ShownWhole, Shown
  <2>4. QED BY <2>2, <2>3 DEF ShownWhole, Shown
<1>9. CASE AnswerCall(r)
  BY <1>9, AnswerCallShape DEF ShownWhole, Shown
<1>10. CASE EndTools(r)
  <2>1. /\ run[r].at = "tools" /\ run'[r].at # "streaming" /\ run'[r].closed = run[r].closed
        /\ run'[r].ctx = run[r].ctx \o Results(run[r].turn, run[r].answered)
    BY <1>10, EndToolsShape
  <2>2. run[r].turn \in 0..MaxTurns /\ run[r].answered \in Seq(CallNumbers)
    <3>1. run[r] \in RunType
      BY DEF TypeOK
    <3>2. QED BY <3>1, RunFields
  <2>3. /\ Results(run[r].turn, run[r].answered) \in Seq(MessageType)
        /\ NoPartial(Results(run[r].turn, run[r].answered))
    BY <2>2, ResultsType, NoPartialResults
  <2>4. NoPartial(run[r].ctx)
    BY <1>2, <2>1 DEF ShownWhole, Shown
  <2>5. NoPartial(run[r].ctx \o Results(run[r].turn, run[r].answered))
    BY <1>1, <2>3, <2>4, NoPartialConcat
  <2>6. QED BY <2>1, <2>5 DEF ShownWhole, Shown
<1>11. CASE Yield(r)
  BY <1>2, <1>11, YieldShape DEF ShownWhole, Shown
<1>12. QED
  BY <1>3, <1>4, <1>5, <1>6, <1>7, <1>8, <1>9, <1>10, <1>11 DEF LoopStep

LEMMA ShownInvStep ==
    ASSUME TypeOK, LoopInv, ShownInv, [Next]_vars
    PROVE  ShownInv'
<1>1. SUFFICES ASSUME NoPartialCommitted' PROVE \A r \in Runs : ShownWhole(r)'
  BY DEF ShownInv
<1>2. NoPartialCommitted /\ \A r \in Runs : ShownWhole(r)
  BY <1>1, NoPartialBefore DEF ShownInv
<1>3. CASE Prompt \/ ContinueQueued \/ ContinueAsIs
  <2>1. PICK s \in Runs : s = nextRun
    BY <1>3, StartShape
  <2>2. Others(s) /\ run'[s].at = "poll"
    BY <1>3, <2>1, StartShape
  <2>3. PICK ms \in Seq(Numbers) : run'[s].ctx = messages \o Users(ms)
    BY <1>3, <2>1, StartShape
  <2>4. messages \in Seq(MessageType) /\ NoPartial(messages)
    BY <1>2 DEF TypeOK, NoPartialCommitted, NoPartial
  <2>5. Users(ms) \in Seq(MessageType) /\ NoPartial(Users(ms))
    BY UsersType, GoodUsers DEF Good
  <2>6. NoPartial(messages \o Users(ms))
    BY <2>4, <2>5, NoPartialConcat
  <2>7. ShownWhole(s)'
    BY <2>2, <2>3, <2>6 DEF ShownWhole, Shown
  <2>8. \A q \in Runs : q # s => ShownWhole(q)'
    BY <1>2, <2>2 DEF Others, ShownWhole, Shown
  <2>9. QED BY <2>7, <2>8
<1>4. ASSUME NEW s \in Runs, LoopStep(s) PROVE \A r \in Runs : ShownWhole(r)'
  <2>1. Others(s) /\ ShownWhole(s)'
    BY <1>2, <1>4, PhaseStep, ShownStep
  <2>2. QED BY <1>2, <2>1 DEF Others, ShownWhole, Shown
<1>5. ASSUME NEW s \in Runs, Consume(s) \/ Settle(s) PROVE \A r \in Runs : ShownWhole(r)'
  <2>1. Others(s) /\ SameLoop(s)
    BY <1>5, ConsumeShape, SettleShape
  <2>2. ShownWhole(s)'
    BY <1>2, <2>1 DEF SameLoop, ShownWhole, Shown
  <2>3. QED BY <1>2, <2>1, <2>2 DEF Others, ShownWhole, Shown
<1>6. CASE Steer \/ FollowUp \/ PopLastSteer \/ PopLastFollowUp \/ ClearAllQueues \/ Abort
  BY <1>2, <1>6
     DEF Steer, FollowUp, PopLastSteer, PopLastFollowUp, ClearAllQueues, Abort, userUnchanged, ShownWhole, Shown
<1>7. CASE UNCHANGED vars
  BY <1>2, <1>7 DEF ShownWhole, Shown
<1>8. QED BY <1>3, <1>4, <1>5, <1>6, <1>7 DEF Next, Idle

\* The model is never shown a response that did not come to its end.
THEOREM NoPartialInRequestsCorrect == Spec => []NoPartialInRequests
<1>1. Init => ShownInv
  <2>1. SUFFICES ASSUME Init, NEW r \in Runs PROVE ShownWhole(r)
    BY DEF ShownInv
  <2>2. run[r].at = "idle" /\ run[r].ctx = << >>
    BY <2>1 DEF Init, FreshRun
  <2>3. QED BY <2>2 DEF ShownWhole, Shown, NoPartial
<1>2. TypeOK /\ LoopInv /\ ShownInv /\ [Next]_vars => ShownInv'
  BY ShownInvStep
<1>3. TypeOK /\ LoopInv /\ ShownInv => NoPartialInRequests
  <2>1. SUFFICES ASSUME LoopInv, ShownInv, NoPartialCommitted, NEW r \in Runs, run[r].at = "request"
                 PROVE  NoPartial(run[r].ctx)
    BY DEF NoPartialInRequests, NoPartial
  <2>2. run[r].closed = "open"
    BY <2>1 DEF LoopInv, Phases
  <2>3. QED BY <2>1, <2>2 DEF ShownInv, ShownWhole, Shown
<1> HIDE DEF vars, queues, agentVars, counters
<1>4. QED BY <1>1, <1>2, <1>3, TypeAndLoop, PTL DEF Spec

-----------------------------------------------------------------------------
(***************************************************************************)
(* While conversations are in order: the one run at work has a paired      *)
(* context, and the transcript, once the stream is consumed, is that       *)
(* context.                                                                *)
(***************************************************************************)
\* The context as far as its responses are answered.
Stem(r) == IF run[r].at \in {"streaming", "tools"} THEN Front(run[r].ctx) ELSE run[r].ctx
\* What the loop has put on the stream so far.
Conv(r) ==
    CASE run[r].at = "streaming" -> Front(run[r].ctx)
      [] run[r].at = "tools" -> run[r].ctx \o Results(run[r].turn, run[r].answered)
      [] OTHER -> run[r].ctx

Alone == \A r \in Runs : AtWork(r) => r = nextRun - 1
\* The run's half of the conversation, and what its stream still adds to the other.
InStep(r) ==
    IF run[r].closed = "failed"
    THEN \E c \in Seq(MessageType) : Good(c) /\ Follows(messages, run[r].events, c)
    ELSE Good(Stem(r)) /\ Follows(messages, run[r].events, Conv(r))
AtRest ==
    (\A r \in Runs : ~AtWork(r)) =>
        /\ Good(messages)
        /\ nextRun > 1 /\ run[nextRun - 1].closed = "ended" => messages = run[nextRun - 1].ctx
OrderInv == Orderly => Alone /\ AtRest /\ \A r \in Runs : AtWork(r) => InStep(r)

LEMMA ConvType ==
    ASSUME TypeOK, LoopInv, NEW r \in Runs
    PROVE  /\ run[r].ctx \in Seq(MessageType) /\ Stem(r) \in Seq(MessageType) /\ Conv(r) \in Seq(MessageType)
           /\ run[r].events \in Seq(EventType) /\ messages \in Seq(MessageType)
           /\ run[r].turn \in 0..MaxTurns /\ run[r].calls \in 0..MaxCalls /\ run[r].calls \in Nat
           /\ run[r].answered \in Seq(CallNumbers)
           /\ Results(run[r].turn, run[r].answered) \in Seq(MessageType)
           /\ run[r].at \in {"streaming", "tools"} => run[r].ctx # << >>
<1>1. /\ run[r].ctx \in Seq(MessageType)
      /\ run[r].at \in {"streaming", "tools"} => run[r].ctx # << >> /\ Front(run[r].ctx) \in Seq(MessageType)
  BY FrontOfMaking
<1>2. run[r] \in RunType /\ messages \in Seq(MessageType)
  BY DEF TypeOK
<1>3. /\ run[r].events \in Seq(EventType) /\ run[r].turn \in 0..MaxTurns
      /\ run[r].calls \in 0..MaxCalls /\ run[r].answered \in Seq(CallNumbers)
  BY <1>2, RunFields
<1>4. run[r].calls \in Nat
  BY <1>3, BoundsAssumption
<1>5. Results(run[r].turn, run[r].answered) \in Seq(MessageType)
  BY <1>3, ResultsType
<1>6. run[r].ctx \o Results(run[r].turn, run[r].answered) \in Seq(MessageType)
  BY <1>1, <1>5, ConcatShape
<1>7. Stem(r) \in Seq(MessageType) /\ Conv(r) \in Seq(MessageType)
  BY <1>1, <1>6 DEF Stem, Conv
<1>8. QED BY <1>1, <1>2, <1>3, <1>4, <1>5, <1>7

\* A response and what follows it, put behind a conversation.
LEMMA BlockBehind ==
    ASSUME NEW S, NEW b \in Seq(S), NEW m \in S, NEW p \in Seq(S)
    PROVE  Append(b, m) \o p = b \o (<<m>> \o p) /\ <<m>> \o p \in Seq(S)
<1>1. PICK u : u = <<m>>
  OBVIOUS
<1>2. u \in Seq(S)
  BY <1>1
<1>3. Append(b, m) = b \o u
  BY <1>1
<1>4. (b \o u) \o p = b \o (u \o p) /\ u \o p \in Seq(S)
  <2>1. b \in Seq(S) /\ u \in Seq(S) /\ p \in Seq(S)
    BY <1>2
  <2>2. QED BY ONLY <2>1, ConcatAssociative, ConcatShape
<1>5. QED BY <1>1, <1>3, <1>4

LEMMA ResultsAppend ==
    ASSUME NEW t \in 0..MaxTurns, NEW ks \in Seq(CallNumbers), NEW k \in CallNumbers,
           NEW c \in Seq(MessageType)
    PROVE  c \o Results(t, Append(ks, k)) = (c \o Results(t, ks)) \o <<ToolResult(t, k)>>
<1>1. PICK as : as = Append(ks, k)
  OBVIOUS
<1>2. PICK n \in Nat : n = Len(ks)
  OBVIOUS
<1>3. as \in Seq(CallNumbers) /\ Len(as) = n + 1 /\ as[n + 1] = k /\ \A i \in 1..n : as[i] = ks[i]
  BY <1>1, <1>2, AppendProperties
<1>4. PICK rs : rs = Results(t, ks)
  OBVIOUS
<1>5. PICK qs : qs = Results(t, as)
  OBVIOUS
<1>6. rs \in Seq(MessageType) /\ Len(rs) = n /\ \A i \in 1..n : rs[i] = ToolResult(t, ks[i])
  BY <1>2, <1>4, ResultsType
<1>7. qs \in Seq(MessageType) /\ Len(qs) = n + 1 /\ \A i \in 1..(n + 1) : qs[i] = ToolResult(t, as[i])
  BY <1>3, <1>5, ResultsType
<1>8. PICK m \in MessageType : m = ToolResult(t, k)
  <2>1. ToolResult(t, k) \in MessageType
    BY MessageTypes
  <2>2. QED BY <2>1
<1>9. PICK us : us = Append(rs, m)
  OBVIOUS
<1>10. us \in Seq(MessageType) /\ Len(us) = n + 1 /\ us[n + 1] = m /\ \A i \in 1..n : us[i] = rs[i]
  BY <1>6, <1>9, AppendProperties
<1>11. ASSUME NEW i \in 1..(n + 1) PROVE qs[i] = us[i]
  <2>1. qs[i] = ToolResult(t, as[i])
    BY <1>7
  <2>2. CASE i \in 1..n
    <3>1. as[i] = ks[i] /\ us[i] = rs[i] /\ rs[i] = ToolResult(t, ks[i])
      BY <1>3, <1>6, <1>10, <2>2
    <3>2. QED BY <2>1, <3>1
  <2>3. CASE i = n + 1
    BY <1>3, <1>8, <1>10, <2>1, <2>3
  <2>4. QED BY <2>2, <2>3
<1>12. qs = us
  BY <1>7, <1>10, <1>11, SeqEqual
<1>13. PICK v : v = <<m>>
  OBVIOUS
<1>14. v \in Seq(MessageType) /\ us = rs \o v
  BY <1>6, <1>9, <1>13, AppendIsConcat
<1>15. c \o (rs \o v) = (c \o rs) \o v
  <2>1. c \in Seq(MessageType) /\ rs \in Seq(MessageType) /\ v \in Seq(MessageType)
    BY <1>6, <1>14
  <2>2. QED BY ONLY <2>1, ConcatAssociative
<1>16. c \o qs = (c \o rs) \o <<m>>
  BY <1>12, <1>13, <1>14, <1>15
<1>17. QED BY <1>1, <1>4, <1>5, <1>8, <1>16

LEMMA ResultsNone ==
    ASSUME NEW t, NEW c \in Seq(MessageType)
    PROVE  c \o Results(t, << >>) = c
<1>1. Results(t, << >>) = << >>
  BY DEF Results
<1>2. QED BY <1>1, ConcatEmptySeq

\* When as many calls have a result as there are, all have.
LEMMA AllAnswered ==
    ASSUME NEW t \in 0..MaxTurns, NEW n \in Nat, NEW ks \in Seq(CallNumbers), Len(ks) = n,
           IsInjective(ks), ToSet(ks) \subseteq 1..n
    PROVE  AllResults(Results(t, ks), t, n)
<1>1. PICK rs : rs = Results(t, ks)
  OBVIOUS
<1>2. Len(rs) = n /\ \A i \in 1..n : rs[i] = ToolResult(t, ks[i])
  BY <1>1, ResultsType
<1>3. /\ DOMAIN ks = 1..n
      /\ \A i \in 1..n : ks[i] \in 1..n
      /\ \A i, j \in 1..n : ks[i] = ks[j] => i = j
  BY DEF IsInjective, ToSet
<1>4. ASSUME NEW k \in 1..n PROVE \E i \in 1..n : ks[i] = k
  <2>1. SUFFICES ASSUME \A i \in 1..n : ks[i] # k PROVE FALSE
    OBVIOUS
  <2>2. PICK N : N = 1..n
    OBVIOUS
  <2>3. IsFiniteSet(N) /\ Cardinality(N) = n
    BY <2>2, FS_Interval
  <2>4. IsFiniteSet(N \ {k}) /\ Cardinality(N \ {k}) = n - 1
    <3>1. k \in N
      BY <2>2
    <3>2. QED BY ONLY <2>3, <3>1, FS_RemoveElement
  <2>5. PICK f : f = [i \in N |-> ks[i]]
    OBVIOUS
  <2>6. f \in [N -> N \ {k}] /\ \A i, j \in N : f[i] = f[j] => i = j
    BY <1>3, <2>1, <2>2, <2>5
  <2>7. f \in Injection(N, N \ {k})
    BY <2>6 DEF Injection, IsInjective
  <2>8. Cardinality(N) <= Cardinality(N \ {k})
    BY <2>4, <2>7, FS_Injection
  <2>9. QED BY <2>3, <2>4, <2>8
<1>5. \A i \in 1..n : \E k \in 1..n : rs[i] = ToolResult(t, k)
  BY <1>2, <1>3
<1>6. ASSUME NEW k \in 1..n PROVE \E i \in 1..n : rs[i] = ToolResult(t, k)
  <2>1. PICK i \in 1..n : ks[i] = k
    BY <1>4
  <2>2. QED BY <1>2, <2>1
<1>7. AllResults(rs, t, n)
  BY <1>2, <1>5, <1>6 DEF AllResults
<1>8. QED BY <1>1, <1>7

LEMMA OrderStep ==
    ASSUME TypeOK, LoopInv, NEW r \in Runs, LoopStep(r), InStep(r)
    PROVE  InStep(r)'
<1>1. /\ run[r].ctx \in Seq(MessageType) /\ Stem(r) \in Seq(MessageType) /\ Conv(r) \in Seq(MessageType)
      /\ run[r].events \in Seq(EventType) /\ messages \in Seq(MessageType)
      /\ run[r].turn \in 0..MaxTurns /\ run[r].calls \in 0..MaxCalls /\ run[r].calls \in Nat
      /\ run[r].answered \in Seq(CallNumbers)
      /\ Results(run[r].turn, run[r].answered) \in Seq(MessageType)
      /\ run[r].at \in {"streaming", "tools"} => run[r].ctx # << >>
  BY ConvType
<1>2. run[r].at # "ended" /\ run[r].closed = "open"
  <2>1. run[r].at # "ended"
    BY DEF LoopStep, PollSteering, BeginTurn, OpenResponse, CompleteResponse, AbortResponse, FailResponse,
           LeakResponse, AnswerCall, EndTools, Yield
  <2>2. QED BY <2>1 DEF LoopInv, Phases
<1>3. Good(Stem(r)) /\ Follows(messages, run[r].events, Conv(r))
  BY <1>2 DEF InStep
<1>4. messages' = messages
  BY LoopStepUnchanged
<1>5. CASE PollSteering(r)
  <2>1. /\ run[r].at = "poll" /\ run'[r].at \in {"turn", "yield"} /\ run'[r].ctx = run[r].ctx
        /\ run'[r].events = run[r].events /\ run'[r].closed = run[r].closed
    BY <1>5, PollSteeringShape
  <2>2. Stem(r)' = Stem(r) /\ Conv(r)' = Conv(r)
    BY <2>1 DEF Stem, Conv
  <2>3. QED BY <1>2, <1>3, <1>4, <2>1, <2>2 DEF InStep
<1>6. CASE BeginTurn(r)
  <2>1. run[r].at = "turn" /\ run'[r].at = "request" /\ run'[r].closed = run[r].closed
    BY <1>6, BeginTurnShape
  <2>2. PICK ms \in Seq(Numbers) :
          run'[r].ctx = run[r].ctx \o Users(ms) /\ run'[r].events = run[r].events \o Ends(Users(ms))
    BY <1>6, BeginTurnShape
  <2>3. PICK us \in Seq(MessageType) : us = Users(ms)
    BY UsersType
  <2>4. Good(us)
    BY <2>3, GoodUsers
  <2>5. Stem(r) = run[r].ctx /\ Conv(r) = run[r].ctx
    BY <2>1 DEF Stem, Conv
  <2>6. Good(run[r].ctx \o us)
    BY <1>1, <1>3, <2>4, <2>5, GoodConcat
  <2>7. Follows(messages, run[r].events \o Ends(us), run[r].ctx \o us)
    BY <1>1, <1>3, <2>5, FollowsEnds
  <2>8. Stem(r)' = run[r].ctx \o us /\ Conv(r)' = run[r].ctx \o us
    BY <2>1, <2>2, <2>3 DEF Stem, Conv
  <2>9. QED BY <1>2, <1>4, <2>1, <2>2, <2>3, <2>6, <2>7, <2>8 DEF InStep
<1>7. CASE OpenResponse(r)
  <2>1. run[r].at = "request" /\ run'[r].at = "streaming" /\ run'[r].closed = run[r].closed
    BY <1>7, OpenResponseShape
  <2>2. PICK n \in 0..MaxCalls :
          /\ run'[r].ctx = Append(run[r].ctx, Assistant(nextTurn, n, "partial"))
          /\ run'[r].events = run[r].events \o Starts(Assistant(nextTurn, n, "partial"))
          /\ Assistant(nextTurn, n, "partial") \in MessageType
    BY <1>7, OpenResponseShape
  <2>3. PICK e \in EventType : e = [kind |-> "start", message |-> Assistant(nextTurn, n, "partial")]
    BY <2>2, EventFields
  <2>4. e.kind # "end" /\ Starts(Assistant(nextTurn, n, "partial")) = <<e>>
    BY <2>3 DEF Starts
  <2>5. Stem(r) = run[r].ctx /\ Conv(r) = run[r].ctx
    BY <2>1 DEF Stem, Conv
  <2>6. Stem(r)' = run[r].ctx /\ Conv(r)' = run[r].ctx
    BY <1>1, <2>1, <2>2, FrontOfAppend DEF Stem, Conv
  <2>7. Follows(messages, run[r].events \o <<e>>, run[r].ctx)
    BY <1>1, <1>3, <2>4, <2>5, FollowsOther
  <2>8. QED BY <1>2, <1>3, <1>4, <2>1, <2>2, <2>4, <2>5, <2>6, <2>7 DEF InStep
<1>8. CASE CompleteResponse(r) \/ AbortResponse(r)
  <2>1. PICK base \in Seq(MessageType), opening \in Seq(EventType), x \in 0..MaxTurns, n \in 0..MaxCalls,
             stop \in {"stop", "length", "error", "aborted"} :
               /\ Finalize(r, base, opening, Assistant(x, n, stop))
               /\ \/ run[r].at = "streaming" /\ base = Front(run[r].ctx) /\ opening = << >>
                  \/ /\ run[r].at = "request" /\ base = run[r].ctx
                     /\ opening = Starts(Assistant(0, 0, "aborted"))
    BY <1>1, <1>8, ResponseEndsShape
  <2>2. base = Stem(r) /\ base = Conv(r)
    BY <2>1 DEF Stem, Conv
  <2>3. PICK ph \in Seq(MessageType), tl \in Seq(EventType) : Finalized(r, base, opening, x, n, stop, ph, tl)
    BY <2>1, FinalizeShape
  <2>4. PICK m \in MessageType : m = Assistant(x, n, stop)
    BY <2>3 DEF Finalized
  <2>5. PICK e1 \in Seq(EventType) : e1 = run[r].events \o opening
    BY <1>1, ConcatShape
  <2>6. Follows(messages, e1, base)
    <3>1. CASE opening = << >>
      BY <1>1, <1>3, <2>2, <2>5, <3>1, ConcatEmptySeq
    <3>2. CASE opening = Starts(Assistant(0, 0, "aborted"))
      <4>1. Assistant(0, 0, "aborted") \in MessageType
        BY BoundsAssumption, MessageTypes
      <4>2. PICK e \in EventType : e = [kind |-> "start", message |-> Assistant(0, 0, "aborted")]
        BY <4>1, EventFields
      <4>3. e.kind # "end" /\ opening = <<e>>
        BY <3>2, <4>2 DEF Starts
      <4>4. Follows(messages, run[r].events \o <<e>>, base)
        BY <1>1, <1>3, <2>2, <4>3, FollowsOther
      <4>5. QED BY <2>5, <4>3, <4>4
    <3>3. QED BY <2>1, <3>1, <3>2
  <2>7. PICK u \in Seq(MessageType) : u = <<m>> \o ph
    BY BlockBehind
  <2>8. PICK e2 \in Seq(EventType) : e2 = e1 \o Ends(u)
    BY EndsType, ConcatShape
  <2>9. Follows(messages, e2, base \o u)
    BY <1>1, <2>6, <2>8, FollowsEnds
  <2>10. run'[r].ctx = base \o u /\ run'[r].events = e2 \o tl
    <3>1. Append(base, m) \o ph = base \o u
      BY <2>7, BlockBehind
    <3>2. QED BY <2>3, <2>4, <2>5, <2>7, <2>8, <3>1 DEF Finalized
  <2>11. Follows(messages, run'[r].events, base \o u)
    <3>1. CASE tl = << >>
      BY <2>8, <2>9, <2>10, <3>1, ConcatEmptySeq
    <3>2. CASE tl = AgentEnd
      <4>1. PICK e \in EventType : e = [kind |-> "agentEnd", message |-> NoMessage]
        BY MessageTypes, EventFields
      <4>2. e.kind # "end" /\ tl = <<e>>
        BY <3>2, <4>1 DEF AgentEnd
      <4>3. base \o u \in Seq(MessageType)
        BY ConcatShape
      <4>4. Follows(messages, e2 \o <<e>>, base \o u)
        BY <1>1, <2>9, <4>2, <4>3, FollowsOther
      <4>5. QED BY <2>10, <4>2, <4>4
    <3>3. tl = << >> \/ tl = AgentEnd
      BY <2>3 DEF Finalized
    <3>4. QED BY <3>1, <3>2, <3>3
  <2>12. CASE run'[r].at = "tools"
    <3>1. ph = << >> /\ run'[r].closed = "open"
      BY <1>2, <2>3, <2>12 DEF Finalized
    <3>2. run'[r].ctx = Append(base, m)
      <4>1. Append(base, m) \in Seq(MessageType)
        BY AppendProperties
      <4>2. Append(base, m) \o << >> = Append(base, m)
        BY <4>1, ConcatEmptySeq
      <4>3. QED BY <2>3, <2>4, <3>1, <4>2 DEF Finalized
    <3>3. Stem(r)' = base
      BY <2>12, <3>2, FrontOfAppend DEF Stem
    <3>4. run'[r].answered = << >>
      <4>1. run[r].answered = << >>
        BY <2>1 DEF LoopInv, CallsOnce
      <4>2. SameResponse(r)
        BY <2>1, FinalizeShape
      <4>3. QED BY <4>1, <4>2 DEF SameResponse
    <3>5. run'[r].ctx \o Results(run'[r].turn, run'[r].answered) = run'[r].ctx
      <4>1. run'[r].ctx \in Seq(MessageType)
        BY <3>2, AppendProperties
      <4>2. QED BY <3>4, <4>1, ResultsNone
    <3>6. Conv(r)' = base \o u
      BY <2>10, <2>12, <3>5 DEF Conv
    <3>7. QED BY <1>3, <1>4, <2>2, <2>11, <3>1, <3>3, <3>6 DEF InStep
  <2>13. CASE run'[r].at \in {"poll", "ended"}
    <3>1. AllResults(ph, x, n) /\ run'[r].closed # "failed"
      BY <1>2, <2>3, <2>13 DEF Finalized
    <3>2. n \in Nat /\ stop # "partial"
      BY BoundsAssumption
    <3>3. Good(u)
      BY <2>4, <2>7, <3>1, <3>2, GoodBlock
    <3>4. Good(base \o u)
      BY <1>3, <2>2, <3>3, GoodConcat
    <3>5. Stem(r)' = base \o u /\ Conv(r)' = base \o u
      BY <2>10, <2>13 DEF Stem, Conv
    <3>6. QED BY <1>4, <2>11, <3>1, <3>4, <3>5 DEF InStep
  <2>14. run'[r].at \in {"tools", "poll", "ended"}
    BY <2>3 DEF Finalized
  <2>15. QED BY <2>12, <2>13, <2>14
<1>9. CASE FailResponse(r)
  <2>1. /\ run[r].at \in {"request", "streaming"} /\ run'[r].closed = "failed"
        /\ run'[r].events = run[r].events
    BY <1>9, FailResponseShape
  <2>2. Stem(r) = Conv(r)
    BY <2>1 DEF Stem, Conv
  <2>3. Good(Conv(r)) /\ Follows(messages, run[r].events, Conv(r))
    BY <1>3, <2>2
  <2>4. QED BY <1>1, <1>4, <2>1, <2>3 DEF InStep
<1>10. CASE LeakResponse(r)
  <2>1. run[r].ctx # << >> /\ run[r].at = "streaming"
    BY <1>1, <1>10 DEF LeakResponse
  <2>2. /\ run'[r].ctx = Front(run[r].ctx) /\ run'[r].events = run[r].events
        /\ \/ run'[r].closed = "failed"
           \/ run'[r].at \in {"turn", "yield"} /\ run'[r].closed = run[r].closed
    BY <1>10, <2>1, LeakResponseShape
  <2>3. Stem(r) = Front(run[r].ctx) /\ Conv(r) = Front(run[r].ctx)
    BY <2>1 DEF Stem, Conv
  <2>4. Good(Conv(r)) /\ Follows(messages, run[r].events, Conv(r))
    BY <1>3, <2>3
  <2>5. CASE run'[r].closed = "failed"
    BY <1>1, <1>4, <2>2, <2>4, <2>5 DEF InStep
  <2>6. CASE run'[r].at \in {"turn", "yield"} /\ run'[r].closed = run[r].closed
    <3>1. Stem(r)' = Front(run[r].ctx) /\ Conv(r)' = Front(run[r].ctx)
      BY <2>2, <2>6 DEF Stem, Conv
    <3>2. QED BY <1>2, <1>4, <2>2, <2>3, <2>4, <2>6, <3>1 DEF InStep
  <2>7. QED BY <2>2, <2>5, <2>6
<1>11. CASE AnswerCall(r)
  <2>1. /\ run[r].at = "tools" /\ run'[r].at = "tools" /\ run'[r].ctx = run[r].ctx
        /\ run'[r].closed = run[r].closed /\ run'[r].turn = run[r].turn
    BY <1>11, AnswerCallShape
  <2>2. PICK k \in CallNumbers :
          /\ ToolResult(run[r].turn, k) \in MessageType
          /\ run'[r].events = run[r].events \o Ends(<<ToolResult(run[r].turn, k)>>)
          /\ run'[r].answered = Append(run[r].answered, k)
    BY <1>11, AnswerCallShape
  <2>3. PICK u : u = <<ToolResult(run[r].turn, k)>>
    OBVIOUS
  <2>4. u \in Seq(MessageType)
    BY <2>2, <2>3
  <2>5. Follows(messages, run[r].events \o Ends(u), Conv(r) \o u)
    BY <1>1, <1>3, <2>4, FollowsEnds
  <2>6. /\ Conv(r) = run[r].ctx \o Results(run[r].turn, run[r].answered)
        /\ Conv(r)' = run[r].ctx \o Results(run[r].turn, Append(run[r].answered, k))
    BY <2>1, <2>2 DEF Conv
  <2>7. Conv(r)' = Conv(r) \o u
    <3>1. PICK t, ks, ctx : t = run[r].turn /\ ks = run[r].answered /\ ctx = run[r].ctx
      OBVIOUS
    <3>2. t \in 0..MaxTurns /\ ks \in Seq(CallNumbers) /\ ctx \in Seq(MessageType)
      BY <1>1, <3>1
    <3>3. ctx \o Results(t, Append(ks, k)) = (ctx \o Results(t, ks)) \o u
      BY <2>3, <3>1, <3>2, ResultsAppend
    <3>4. QED BY <2>6, <3>1, <3>3
  <2>8. Stem(r)' = Stem(r)
    BY <2>1 DEF Stem
  <2>9. QED BY <1>2, <1>3, <1>4, <2>1, <2>2, <2>3, <2>5, <2>7, <2>8 DEF InStep
<1>12. CASE EndTools(r)
  <2>1. /\ run[r].at = "tools" /\ run'[r].at \in {"turn", "poll"}
        /\ Len(run[r].answered) = run[r].calls
        /\ run'[r].ctx = run[r].ctx \o Results(run[r].turn, run[r].answered)
        /\ run'[r].events = run[r].events /\ run'[r].closed = run[r].closed
    BY <1>12, EndToolsShape
  <2>2. Conv(r)' = Conv(r) /\ Stem(r)' = Conv(r)
    BY <2>1 DEF Conv, Stem
  <2>3. PICK b \in Seq(MessageType) : b = Front(run[r].ctx)
    BY <1>1, <2>1, FrontType
  <2>4. PICK m \in MessageType : m = Assistant(run[r].turn, run[r].calls, "stop")
    <3>1. Assistant(run[r].turn, run[r].calls, "stop") \in MessageType
      BY <1>1, MessageTypes
    <3>2. QED BY <3>1
  <2>5. run[r].ctx = Append(b, m)
    <3>1. run[r].ctx[Len(run[r].ctx)] = m /\ run[r].ctx # << >>
      BY <2>1, <2>4 DEF LoopInv, InTheMaking, LastIs
    <3>2. QED BY <1>1, <2>3, <3>1, FrontType
  <2>6. PICK rs \in Seq(MessageType) : rs = Results(run[r].turn, run[r].answered)
    BY <1>1
  <2>7. AllResults(rs, run[r].turn, run[r].calls)
    <3>1. IsInjective(run[r].answered) /\ ToSet(run[r].answered) \subseteq 1..run[r].calls
      BY DEF LoopInv, CallsOnce
    <3>2. QED BY <1>1, <2>1, <2>6, <3>1, AllAnswered
  <2>8. Good(<<m>> \o rs)
    BY <1>1, <2>4, <2>7, GoodBlock
  <2>9. Append(b, m) \o rs = b \o (<<m>> \o rs) /\ <<m>> \o rs \in Seq(MessageType)
    BY BlockBehind
  <2>10. Good(b)
    BY <1>3, <2>1, <2>3 DEF Stem
  <2>11. Good(b \o (<<m>> \o rs))
    BY <2>8, <2>9, <2>10, GoodConcat
  <2>12. Conv(r) = Append(b, m) \o rs
    BY <2>1, <2>5, <2>6 DEF Conv
  <2>13. QED BY <1>2, <1>3, <1>4, <2>1, <2>2, <2>9, <2>11, <2>12 DEF InStep
<1>13. CASE Yield(r)
  <2>1. /\ run[r].at = "yield" /\ run'[r].ctx = run[r].ctx /\ run'[r].at \in {"turn", "ended"}
        /\ \/ run'[r].closed = run[r].closed /\ run'[r].events = run[r].events
           \/ run'[r].closed = "ended" /\ run'[r].events = run[r].events \o AgentEnd
    BY <1>13, YieldShape
  <2>2. Stem(r)' = Stem(r) /\ Conv(r)' = Conv(r)
    BY <2>1 DEF Stem, Conv
  <2>3. PICK e \in EventType : e = [kind |-> "agentEnd", message |-> NoMessage]
    BY MessageTypes, EventFields
  <2>4. e.kind # "end" /\ AgentEnd = <<e>>
    BY <2>3 DEF AgentEnd
  <2>5. Follows(messages, run[r].events \o <<e>>, Conv(r))
    BY <1>1, <1>3, <2>4, FollowsOther
  <2>6. QED BY <1>2, <1>3, <1>4, <2>1, <2>2, <2>4, <2>5 DEF InStep
<1>14. QED
  BY <1>5, <1>6, <1>7, <1>8, <1>9, <1>10, <1>11, <1>12, <1>13 DEF LoopStep

-----------------------------------------------------------------------------
(***************************************************************************)
(* What is left when a stream ends: a response that is not torn off has    *)
(* its message_end behind its message_start.                               *)
(***************************************************************************)
EndAfter(es, i) == \E j \in (i + 1)..Len(es) : es[j].kind = "end"
Whole(es) ==
    \A i \in 1..Len(es) : es[i].kind = "start" /\ es[i].message.stop # "partial" => EndAfter(es, i)
LeftoverTorn(r) ==
    /\ Whole(run[r].events)
    /\ run[r].partial.role = "assistant" /\ run[r].partial.stop # "partial" => EndAfter(run[r].events, 0)
TornInv == \A r \in Runs : LeftoverTorn(r)

LEMMA WholeConcat ==
    ASSUME NEW es \in Seq(EventType), NEW d \in Seq(EventType)
    PROVE  /\ Whole(es) /\ Whole(d) => Whole(es \o d)
           /\ EndAfter(es, 0) => EndAfter(es \o d, 0)
<1>1. PICK n \in Nat : n = Len(es)
  OBVIOUS
<1>2. PICK m \in Nat : m = Len(d)
  OBVIOUS
<1>3. PICK c : c = es \o d
  OBVIOUS
<1>4. /\ Len(c) = n + m
      /\ \A i \in 1..n : c[i] = es[i]
      /\ \A i \in 1..m : c[n + i] = d[i]
      /\ \A i \in 1..(n + m) : i \in 1..n \/ (i - n \in 1..m /\ i = n + (i - n))
  BY <1>1, <1>2, <1>3, ConcatShape
<1>5. ASSUME NEW i \in 0..n, EndAfter(es, i) PROVE EndAfter(c, i)
  <2>1. PICK j \in (i + 1)..n : es[j].kind = "end"
    BY <1>1, <1>5 DEF EndAfter
  <2>2. j \in 1..n /\ j \in (i + 1)..(n + m)
    OBVIOUS
  <2>3. c[j].kind = "end"
    BY <1>4, <2>1, <2>2
  <2>4. QED BY <1>4, <2>2, <2>3 DEF EndAfter
<1>6. ASSUME NEW i \in 1..m, EndAfter(d, i) PROVE EndAfter(c, n + i)
  <2>1. PICK j \in (i + 1)..m : d[j].kind = "end"
    BY <1>2, <1>6 DEF EndAfter
  <2>2. j \in 1..m /\ n + j \in (n + i + 1)..(n + m)
    OBVIOUS
  <2>3. c[n + j].kind = "end"
    BY <1>4, <2>1, <2>2
  <2>4. QED BY <1>4, <2>2, <2>3 DEF EndAfter
<1>7. ASSUME Whole(es), Whole(d) PROVE Whole(c)
  <2>1. SUFFICES ASSUME NEW i \in 1..(n + m), c[i].kind = "start", c[i].message.stop # "partial"
                 PROVE  EndAfter(c, i)
    BY <1>4 DEF Whole
  <2>2. CASE i \in 1..n
    <3>1. EndAfter(es, i)
      BY <1>1, <1>4, <1>7, <2>1, <2>2 DEF Whole
    <3>2. QED BY <1>5, <2>2, <3>1
  <2>3. CASE i - n \in 1..m /\ i = n + (i - n)
    <3>1. PICK x \in 1..m : i = n + x
      BY <2>3
    <3>2. c[i] = d[x]
      BY <1>4, <3>1
    <3>3. EndAfter(d, x)
      BY <1>2, <1>7, <2>1, <3>2 DEF Whole
    <3>4. QED BY <1>6, <3>1, <3>3
  <2>4. QED BY <1>4, <2>2, <2>3
<1>8. 0 \in 0..n
  OBVIOUS
<1>9. QED BY <1>3, <1>5, <1>7, <1>8

LEMMA WholeSimple ==
    /\ \A ns \in Seq(MessageType) : Whole(Ends(ns))
    /\ Whole(<< >>) /\ Whole(AgentEnd)
    /\ \A m \in MessageType : m.stop = "partial" => Whole(Starts(m))
<1>1. ASSUME NEW ns \in Seq(MessageType) PROVE Whole(Ends(ns))
  <2>1. PICK es : es = Ends(ns)
    OBVIOUS
  <2>2. Len(es) = Len(ns) /\ \A i \in 1..Len(ns) : es[i].kind = "end"
    BY <2>1, EndsType
  <2>3. Whole(es)
    BY <2>2 DEF Whole
  <2>4. QED BY <2>1, <2>3
<1>2. Whole(<< >>)
  BY DEF Whole
<1>3. Whole(AgentEnd)
  <2>1. PICK es : es = AgentEnd
    OBVIOUS
  <2>2. Len(es) = 1 /\ es[1].kind = "agentEnd" /\ \A i \in 1..1 : i = 1
    BY <2>1 DEF AgentEnd
  <2>3. Whole(es)
    BY <2>2 DEF Whole
  <2>4. QED BY <2>1, <2>3
<1>4. ASSUME NEW m \in MessageType, m.stop = "partial" PROVE Whole(Starts(m))
  <2>1. PICK es : es = Starts(m)
    OBVIOUS
  <2>2. Len(es) = 1 /\ es[1].message = m /\ \A i \in 1..1 : i = 1
    BY <2>1 DEF Starts
  <2>3. Whole(es)
    BY <1>4, <2>2 DEF Whole
  <2>4. QED BY <2>1, <2>3
<1>5. QED BY <1>1, <1>2, <1>3, <1>4

\* A message that starts and ends at once.
LEMMA WholeAtOnce ==
    ASSUME NEW e \in EventType, NEW m \in MessageType, NEW ph \in Seq(MessageType)
    PROVE  Whole(<<e>> \o Ends(<<m>> \o ph))
<1>1. PICK u : u = <<m>> \o ph
  OBVIOUS
<1>2. u \in Seq(MessageType) /\ Len(u) = 1 + Len(ph)
  BY <1>1, ConsShape
<1>3. PICK en : en = Ends(u)
  OBVIOUS
<1>4. en \in Seq(EventType) /\ Len(en) = 1 + Len(ph) /\ \A i \in 1..(1 + Len(ph)) : en[i].kind = "end"
  BY <1>2, <1>3, EndsType
<1>5. PICK l \in Nat : l = Len(ph)
  OBVIOUS
<1>6. PICK c : c = <<e>> \o en
  OBVIOUS
<1>7. /\ Len(c) = 1 + Len(en)
      /\ \A i \in 1..Len(en) : c[1 + i] = en[i]
      /\ \A i \in 1..(1 + Len(en)) : i = 1 \/ (i - 1 \in 1..Len(en) /\ c[i] = en[i - 1])
  BY <1>4, <1>6, ConsShape
<1>8. 1 \in 1..(1 + l) /\ 1 + 1 \in (1 + 1)..(1 + (1 + l))
  OBVIOUS
<1>9. c[1 + 1].kind = "end"
  BY <1>4, <1>5, <1>7, <1>8
<1>10. EndAfter(c, 1)
  BY <1>4, <1>5, <1>7, <1>8, <1>9 DEF EndAfter
<1>11. \A i \in 1..(1 + Len(en)) : i = 1 \/ c[i].kind = "end"
  BY <1>4, <1>7
<1>12. Whole(c)
  BY <1>7, <1>10, <1>11 DEF Whole
<1>13. QED BY <1>1, <1>3, <1>6, <1>12

LEMMA WholeTail ==
    ASSUME NEW es \in Seq(EventType), es # << >>, Whole(es)
    PROVE  /\ Whole(Tail(es))
           /\ es[1].kind = "start" /\ es[1].message.stop # "partial" => EndAfter(Tail(es), 0)
           /\ es[1].kind # "end" /\ EndAfter(es, 0) => EndAfter(Tail(es), 0)
<1>1. PICK n \in Nat : Len(es) = n + 1
  <2>1. Len(es) \in Nat /\ Len(es) # 0
    OBVIOUS
  <2>2. QED BY <2>1
<1>2. PICK fs : fs = Tail(es)
  OBVIOUS
<1>3. Len(fs) = n /\ \A i \in 1..n : fs[i] = es[i + 1]
  BY <1>1, <1>2
<1>4. ASSUME NEW i \in 0..n, EndAfter(es, i + 1) PROVE EndAfter(fs, i)
  <2>1. PICK j \in (i + 1 + 1)..(n + 1) : es[j].kind = "end"
    BY <1>1, <1>4 DEF EndAfter
  <2>2. j - 1 \in (i + 1)..n /\ j - 1 \in 1..n /\ (j - 1) + 1 = j
    OBVIOUS
  <2>3. fs[j - 1].kind = "end"
    BY <1>3, <2>1, <2>2
  <2>4. QED BY <1>3, <2>2, <2>3 DEF EndAfter
<1>5. Whole(fs)
  <2>1. SUFFICES ASSUME NEW i \in 1..n, fs[i].kind = "start", fs[i].message.stop # "partial"
                 PROVE  EndAfter(fs, i)
    BY <1>3 DEF Whole
  <2>2. i + 1 \in 1..(n + 1) /\ i \in 0..n
    OBVIOUS
  <2>3. EndAfter(es, i + 1)
    BY <1>1, <1>3, <2>1, <2>2 DEF Whole
  <2>4. QED BY <1>4, <2>2, <2>3
<1>6. 0 \in 0..n /\ 1 \in 1..(n + 1) /\ 0 + 1 = 1
  OBVIOUS
<1>7. es[1].kind = "start" /\ es[1].message.stop # "partial" => EndAfter(fs, 0)
  <2>1. es[1].kind = "start" /\ es[1].message.stop # "partial" => EndAfter(es, 0 + 1)
    BY <1>1, <1>6 DEF Whole
  <2>2. QED BY <1>4, <1>6, <2>1
<1>8. es[1].kind # "end" /\ EndAfter(es, 0) => EndAfter(fs, 0)
  <2>1. SUFFICES ASSUME es[1].kind # "end", EndAfter(es, 0) PROVE EndAfter(fs, 0)
    OBVIOUS
  <2>2. PICK j \in (0 + 1)..(n + 1) : es[j].kind = "end"
    BY <1>1, <2>1 DEF EndAfter
  <2>3. j # 1
    BY <2>1, <2>2
  <2>4. j \in (0 + 1 + 1)..(n + 1)
    BY <2>3
  <2>5. EndAfter(es, 0 + 1)
    BY <1>1, <2>2, <2>4 DEF EndAfter
  <2>6. QED BY <1>4, <1>6, <2>5
<1>9. QED BY <1>2, <1>5, <1>7, <1>8

LEMMA EventsAssociative ==
    \A s, t, u \in Seq(EventType) : (s \o t) \o u = s \o (t \o u)
BY ONLY ConcatAssociative

LEMMA WholeFinal ==
    ASSUME NEW a \in Seq(EventType), NEW b \in Seq(EventType),
           NEW c \in Seq(EventType), NEW d \in Seq(EventType), Whole(b \o c), Whole(d)
    PROVE  /\ Whole(a) => Whole(((a \o b) \o c) \o d)
           /\ EndAfter(a, 0) => EndAfter(((a \o b) \o c) \o d, 0)
<1>0. (a \o b) \o c = a \o (b \o c)
  <2>1. \A s, t \in Seq(EventType) : (a \o s) \o t = a \o (s \o t)
    BY ONLY EventsAssociative
  <2>2. \A t \in Seq(EventType) : (a \o b) \o t = a \o (b \o t)
    BY ONLY <2>1
  <2>3. QED BY ONLY <2>2
<1>1. PICK u \in Seq(EventType) : u = b \o c
  BY ConcatShape
<1>2. PICK v \in Seq(EventType) : v = a \o u
  BY ConcatShape
<1>3. v = (a \o b) \o c
  BY ONLY <1>0, <1>1, <1>2
<1>4. Whole(a) => Whole(v)
  BY <1>1, <1>2, WholeConcat
<1>5. EndAfter(a, 0) => EndAfter(v, 0)
  BY <1>2, WholeConcat
<1>6. Whole(v) => Whole(v \o d)
  BY WholeConcat
<1>7. EndAfter(v, 0) => EndAfter(v \o d, 0)
  BY WholeConcat
<1>8. QED BY <1>3, <1>4, <1>5, <1>6, <1>7

LEMMA TornStep ==
    ASSUME TypeOK, LoopInv, NEW r \in Runs, LoopStep(r), LeftoverTorn(r)
    PROVE  LeftoverTorn(r)'
<1>1. /\ run[r].events \in Seq(EventType)
      /\ run[r].at \in {"streaming", "tools"} => run[r].ctx # << >>
  BY ConvType
<1>2. run'[r].partial = run[r].partial
  BY PhaseStep DEF SameConsumer
<1>3. ASSUME NEW d \in Seq(EventType), Whole(d), run'[r].events = run[r].events \o d
      PROVE  LeftoverTorn(r)'
  <2>1. /\ Whole(run[r].events \o d)
        /\ EndAfter(run[r].events, 0) => EndAfter(run[r].events \o d, 0)
    BY <1>1, <1>3, WholeConcat DEF LeftoverTorn
  <2>2. QED BY <1>2, <1>3, <2>1 DEF LeftoverTorn
<1>4. ASSUME run'[r].events = run[r].events PROVE LeftoverTorn(r)'
  BY <1>2, <1>4 DEF LeftoverTorn
<1>5. AgentEnd \in Seq(EventType)
  <2>1. [kind |-> "agentEnd", message |-> NoMessage] \in EventType
    BY MessageTypes, EventFields
  <2>2. QED BY <2>1 DEF AgentEnd
<1>6. CASE PollSteering(r) \/ FailResponse(r) \/ EndTools(r)
  BY <1>4, <1>6, PollSteeringShape, FailResponseShape, EndToolsShape
<1>7. CASE BeginTurn(r)
  <2>1. PICK ms \in Seq(Numbers) : run'[r].events = run[r].events \o Ends(Users(ms))
    BY <1>7, BeginTurnShape
  <2>2. Ends(Users(ms)) \in Seq(EventType) /\ Whole(Ends(Users(ms)))
    BY UsersType, EndsType, WholeSimple
  <2>3. QED BY <1>3, <2>1, <2>2
<1>8. CASE OpenResponse(r)
  <2>1. PICK n \in 0..MaxCalls :
          /\ run'[r].events = run[r].events \o Starts(Assistant(nextTurn, n, "partial"))
          /\ Assistant(nextTurn, n, "partial") \in MessageType
    BY <1>8, OpenResponseShape
  <2>2. Assistant(nextTurn, n, "partial").stop = "partial"
    BY DEF Assistant
  <2>3. [kind |-> "start", message |-> Assistant(nextTurn, n, "partial")] \in EventType
    BY <2>1, EventFields
  <2>4. Starts(Assistant(nextTurn, n, "partial")) \in Seq(EventType)
    BY <2>3 DEF Starts
  <2>5. Whole(Starts(Assistant(nextTurn, n, "partial")))
    BY <2>1, <2>2, WholeSimple
  <2>6. QED BY <1>3, <2>1, <2>4, <2>5
<1>9. CASE CompleteResponse(r) \/ AbortResponse(r)
  <2>1. PICK base \in Seq(MessageType), opening \in Seq(EventType), x \in 0..MaxTurns, n \in 0..MaxCalls,
             stop \in {"stop", "length", "error", "aborted"} :
               /\ Finalize(r, base, opening, Assistant(x, n, stop))
               /\ opening = << >> \/ opening = Starts(Assistant(0, 0, "aborted"))
    BY <1>1, <1>9, ResponseEndsShape
  <2>2. PICK ph \in Seq(MessageType), tl \in Seq(EventType) : Finalized(r, base, opening, x, n, stop, ph, tl)
    BY <2>1, FinalizeShape
  <2>3. PICK m \in MessageType : m = Assistant(x, n, stop)
    BY <2>2 DEF Finalized
  <2>4. PICK en \in Seq(EventType) : en = Ends(<<m>> \o ph)
    <3>1. <<m>> \o ph \in Seq(MessageType)
      BY ConsShape
    <3>2. Ends(<<m>> \o ph) \in Seq(EventType)
      BY <3>1, EndsType
    <3>3. QED BY <3>2
  <2>5. PICK d \in Seq(EventType) : d = opening \o en
    BY ConcatShape
  <2>6. Whole(d)
    <3>1. CASE opening = << >>
      <4>1. d = en
        BY <2>5, <3>1, ConcatEmptySeq
      <4>2. <<m>> \o ph \in Seq(MessageType)
        BY ConsShape
      <4>3. QED BY <2>4, <4>1, <4>2, WholeSimple
    <3>2. CASE opening = Starts(Assistant(0, 0, "aborted"))
      <4>1. Assistant(0, 0, "aborted") \in MessageType
        BY BoundsAssumption, MessageTypes
      <4>2. PICK e \in EventType : e = [kind |-> "start", message |-> Assistant(0, 0, "aborted")]
        BY <4>1, EventFields
      <4>3. opening = <<e>>
        BY <3>2, <4>2 DEF Starts
      <4>4. QED BY <2>4, <2>5, <4>3, WholeAtOnce
    <3>3. QED BY <2>1, <3>1, <3>2
  <2>7. Whole(tl)
    BY <2>2, WholeSimple DEF Finalized
  <2>8. PICK ev \in Seq(EventType) : ev = run[r].events
    BY <1>1
  <2>9. PICK fs : fs = ((ev \o opening) \o en) \o tl
    OBVIOUS
  <2>10. Whole(ev) => Whole(fs)
    BY <2>5, <2>6, <2>7, <2>9, WholeFinal
  <2>11. EndAfter(ev, 0) => EndAfter(fs, 0)
    BY <2>5, <2>6, <2>7, <2>9, WholeFinal
  <2>12. run'[r].events = fs
    BY <2>2, <2>3, <2>4, <2>8, <2>9 DEF Finalized
  <2>13. QED BY <1>2, <2>8, <2>10, <2>11, <2>12 DEF LeftoverTorn
<1>10. CASE LeakResponse(r)
  <2>1. run[r].ctx # << >>
    BY <1>1, <1>10 DEF LeakResponse
  <2>2. QED BY <1>4, <1>10, <2>1, LeakResponseShape
<1>11. CASE AnswerCall(r)
  <2>1. PICK k \in CallNumbers :
          /\ ToolResult(run[r].turn, k) \in MessageType
          /\ run'[r].events = run[r].events \o Ends(<<ToolResult(run[r].turn, k)>>)
    BY <1>11, AnswerCallShape
  <2>2. <<ToolResult(run[r].turn, k)>> \in Seq(MessageType)
    BY <2>1
  <2>3. Ends(<<ToolResult(run[r].turn, k)>>) \in Seq(EventType) /\ Whole(Ends(<<ToolResult(run[r].turn, k)>>))
    BY <2>2, EndsType, WholeSimple
  <2>4. QED BY <1>3, <2>1, <2>3
<1>12. CASE Yield(r)
  BY <1>3, <1>4, <1>5, <1>12, YieldShape, WholeSimple
<1>13. QED
  BY <1>6, <1>7, <1>8, <1>9, <1>10, <1>11, <1>12 DEF LoopStep

LEMMA TornInvStep ==
    ASSUME TypeOK, LoopInv, TornInv, [Next]_vars
    PROVE  TornInv'
<1>1. CASE Prompt \/ ContinueQueued \/ ContinueAsIs
  <2>1. PICK s \in Runs : s = nextRun
    BY <1>1, StartShape
  <2>2. Others(s) /\ run'[s].partial = NoMessage
    BY <1>1, <2>1, StartShape
  <2>3. PICK ms \in Seq(Numbers) : run'[s].events = Ends(Users(ms))
    BY <1>1, <2>1, StartShape
  <2>4. Whole(Ends(Users(ms)))
    BY UsersType, WholeSimple
  <2>5. LeftoverTorn(s)'
    BY <2>2, <2>3, <2>4 DEF LeftoverTorn, NoMessage
  <2>6. QED BY <2>2, <2>5 DEF TornInv, LeftoverTorn, Others
<1>2. ASSUME NEW s \in Runs, LoopStep(s) PROVE TornInv'
  <2>1. Others(s) /\ LeftoverTorn(s)'
    BY <1>2, PhaseStep, TornStep DEF TornInv
  <2>2. QED BY <2>1 DEF TornInv, LeftoverTorn, Others
<1>3. ASSUME NEW s \in Runs, Consume(s) PROVE TornInv'
  <2>1. PICK es \in Seq(EventType) : es = run[s].events
    BY ConvType
  <2>2. /\ Others(s) /\ es # << >> /\ run'[s].events = Tail(es) /\ es[1] \in EventType
        /\ es[1].kind = "end" => run'[s].partial = NoMessage
        /\ es[1].kind = "start" => run'[s].partial = es[1].message
        /\ es[1].kind = "agentEnd" => run'[s].partial = run[s].partial
    BY <1>3, <2>1, ConsumeShape
  <2>3. es[1].kind \in {"start", "end", "agentEnd"}
    BY <2>2 DEF EventType
  <2>4. /\ Whole(es)
        /\ run[s].partial.role = "assistant" /\ run[s].partial.stop # "partial" => EndAfter(es, 0)
    BY <2>1 DEF TornInv, LeftoverTorn
  <2>5. /\ Whole(Tail(es))
        /\ es[1].kind = "start" /\ es[1].message.stop # "partial" => EndAfter(Tail(es), 0)
        /\ es[1].kind # "end" /\ EndAfter(es, 0) => EndAfter(Tail(es), 0)
    BY <2>2, <2>4, WholeTail
  <2>6. run'[s].partial.role = "assistant" /\ run'[s].partial.stop # "partial" => EndAfter(Tail(es), 0)
    <3>1. CASE es[1].kind = "end"
      BY <2>2, <3>1 DEF NoMessage
    <3>2. CASE es[1].kind = "start"
      BY <2>2, <2>5, <3>2
    <3>3. CASE es[1].kind = "agentEnd"
      BY <2>2, <2>4, <2>5, <3>3
    <3>4. QED BY <2>3, <3>1, <3>2, <3>3
  <2>7. LeftoverTorn(s)'
    BY <2>2, <2>5, <2>6 DEF LeftoverTorn
  <2>8. QED BY <2>2, <2>7 DEF TornInv, LeftoverTorn, Others
<1>4. ASSUME NEW s \in Runs, Settle(s) PROVE TornInv'
  <2>1. Others(s) /\ run'[s].partial = NoMessage /\ run'[s].events = << >>
    BY <1>4, SettleShape
  <2>2. LeftoverTorn(s)'
    BY <2>1, WholeSimple DEF LeftoverTorn, NoMessage
  <2>3. QED BY <2>1, <2>2 DEF TornInv, LeftoverTorn, Others
<1>5. CASE Steer \/ FollowUp \/ PopLastSteer \/ PopLastFollowUp \/ ClearAllQueues \/ Abort
  BY <1>5 DEF Steer, FollowUp, PopLastSteer, PopLastFollowUp, ClearAllQueues, Abort, userUnchanged,
              TornInv, LeftoverTorn
<1>6. CASE UNCHANGED vars
  BY <1>6 DEF TornInv, LeftoverTorn
<1>7. QED BY <1>1, <1>2, <1>3, <1>4, <1>5, <1>6 DEF Next, Idle

-----------------------------------------------------------------------------
(***************************************************************************)
(* The conversation stays in order.                                        *)
(***************************************************************************)
LEMMA OrderlyBefore ==
    ASSUME TypeOK, [Next]_vars, Orderly'
    PROVE  Orderly
<1>1. NoPartialCommitted /\ ~crossed'
  BY NoPartialBefore DEF Orderly
<1>2. ASSUME crossed PROVE crossed'
  <2>1. CASE Prompt \/ ContinueQueued \/ ContinueAsIs
    BY <1>2, <2>1, StartShape
  <2>2. ASSUME NEW r \in Runs, LoopStep(r) PROVE crossed'
    BY <1>2, <2>2, LoopStepUnchanged
  <2>3. ASSUME NEW r \in Runs, Consume(r) \/ Settle(r) PROVE crossed'
    <3>1. crossed' = crossed
      BY <2>3 DEF Consume, Settle
    <3>2. QED BY <1>2, <3>1
  <2>4. CASE Steer \/ FollowUp \/ PopLastSteer \/ PopLastFollowUp \/ ClearAllQueues \/ Abort
    <3>1. crossed' = crossed
      BY <2>4 DEF Steer, FollowUp, PopLastSteer, PopLastFollowUp, ClearAllQueues, Abort, userUnchanged
    <3>2. QED BY <1>2, <3>1
  <2>5. CASE UNCHANGED vars
    <3>1. crossed' = crossed
      BY <2>5
    <3>2. QED BY <1>2, <3>1
  <2>6. QED BY <2>1, <2>2, <2>3, <2>4, <2>5 DEF Next, Idle
<1>3. QED BY <1>1, <1>2 DEF Orderly

\* A run that has begun and has an open loop is at work.
LEMMA LoopIsAtWork ==
    ASSUME TypeOK, LoopInv, NEW r \in Runs, LoopStep(r)
    PROVE  AtWork(r) /\ run[r].closed = "open"
<1>1. run[r].at \notin {"ended", "idle"}
  BY DEF LoopStep, PollSteering, BeginTurn, OpenResponse, CompleteResponse, AbortResponse, FailResponse,
         LeakResponse, AnswerCall, EndTools, Yield
<1>2. Phases(r) /\ run[r].consumer \in {"none", "consuming", "finished"}
  <2>1. run[r] \in RunType
    BY DEF TypeOK
  <2>2. QED BY <2>1, RunFields DEF LoopInv
<1>3. QED BY <1>1, <1>2 DEF Phases, AtWork

\* What the loop closes it has put agent_end on, or it has failed.
LEMMA StaysAtWork ==
    ASSUME TypeOK, LoopInv, NEW r \in Runs, LoopStep(r)
    PROVE  AtWork(r)'
<1>1. AtWork(r) /\ run[r].closed = "open" /\ SameConsumer(r)
  BY LoopIsAtWork, PhaseStep
<1>2. run'[r].consumer = "consuming"
  BY <1>1 DEF AtWork, SameConsumer
<1>3. /\ run[r].events \in Seq(EventType)
      /\ run[r].at \in {"streaming", "tools"} => run[r].ctx # << >>
  BY ConvType
<1>4. \A es \in Seq(EventType) : es \o AgentEnd # << >>
  <2>1. SUFFICES ASSUME NEW es \in Seq(EventType) PROVE es \o AgentEnd # << >>
    OBVIOUS
  <2>2. PICK e : e = [kind |-> "agentEnd", message |-> NoMessage]
    OBVIOUS
  <2>3. AgentEnd = <<e>>
    BY <2>2 DEF AgentEnd
  <2>4. QED BY <2>3
<1>5. run'[r].closed = "ended" => run'[r].events # << >>
  <2>1. CASE PollSteering(r)
    BY <1>1, <2>1, PollSteeringShape
  <2>2. CASE BeginTurn(r)
    BY <1>1, <2>2, BeginTurnShape
  <2>3. CASE OpenResponse(r)
    BY <1>1, <2>3, OpenResponseShape
  <2>4. CASE CompleteResponse(r) \/ AbortResponse(r)
    <3>1. PICK base \in Seq(MessageType), opening \in Seq(EventType), x \in 0..MaxTurns, n \in 0..MaxCalls,
               stop \in {"stop", "length", "error", "aborted"} :
                 Finalize(r, base, opening, Assistant(x, n, stop))
      BY <1>3, <2>4, ResponseEndsShape
    <3>2. PICK ph \in Seq(MessageType), tl \in Seq(EventType) : Finalized(r, base, opening, x, n, stop, ph, tl)
      BY <3>1, FinalizeShape
    <3>3. CASE run'[r].closed = "ended"
      <4>1. tl = AgentEnd
        BY <1>1, <3>2, <3>3 DEF Finalized
      <4>2. PICK m \in MessageType : m = Assistant(x, n, stop)
        BY <3>2 DEF Finalized
      <4>3. PICK e2 \in Seq(EventType) : e2 = (run[r].events \o opening) \o Ends(<<m>> \o ph)
        <5>1. <<m>> \o ph \in Seq(MessageType)
          BY ConsShape
        <5>2. Ends(<<m>> \o ph) \in Seq(EventType)
          BY <5>1, EndsType
        <5>3. run[r].events \o opening \in Seq(EventType)
          BY <1>3, ConcatShape
        <5>4. (run[r].events \o opening) \o Ends(<<m>> \o ph) \in Seq(EventType)
          BY <5>2, <5>3, ConcatShape
        <5>5. QED BY <5>4
      <4>4. run'[r].events = e2 \o tl
        BY <3>2, <4>2, <4>3 DEF Finalized
      <4>5. QED BY <1>4, <4>1, <4>4
    <3>4. QED BY <3>3
  <2>5. CASE FailResponse(r)
    BY <2>5, FailResponseShape
  <2>6. CASE LeakResponse(r)
    <3>1. run[r].ctx # << >>
      BY <1>3, <2>6 DEF LeakResponse
    <3>2. QED BY <1>1, <2>6, <3>1, LeakResponseShape
  <2>7. CASE AnswerCall(r)
    BY <1>1, <2>7, AnswerCallShape
  <2>8. CASE EndTools(r)
    BY <1>1, <2>8, EndToolsShape
  <2>9. CASE Yield(r)
    BY <1>1, <1>3, <1>4, <2>9, YieldShape
  <2>10. QED BY <2>1, <2>2, <2>3, <2>4, <2>5, <2>6, <2>7, <2>8, <2>9 DEF LoopStep
<1>6. QED BY <1>2, <1>5 DEF AtWork

OrderNow == Alone /\ AtRest /\ \A r \in Runs : AtWork(r) => InStep(r)

LEMMA OrderStart ==
    ASSUME TypeOK, LoopInv, OrderNow, Prompt \/ ContinueQueued \/ ContinueAsIs, ~crossed'
    PROVE  OrderNow'
<1>1. PICK s \in Runs : s = nextRun
  BY StartShape
<1>2. /\ Others(s) /\ nextRun' = s + 1 /\ messages' = messages
      /\ run'[s].at = "poll" /\ run'[s].closed = "open" /\ run'[s].consumer = "consuming"
      /\ crossed' = (crossed \/ \E r \in Runs : AtWork(r))
  BY <1>1, StartShape
<1>3. PICK ms \in Seq(Numbers) :
        run'[s].ctx = messages \o Users(ms) /\ run'[s].events = Ends(Users(ms))
  BY <1>1, StartShape
<1>4. \A r \in Runs : ~AtWork(r)
  BY <1>2
<1>5. messages \in Seq(MessageType) /\ Good(messages)
  BY <1>4 DEF TypeOK, OrderNow, AtRest
<1>6. PICK us \in Seq(MessageType) : us = Users(ms)
  BY UsersType
<1>7. Good(messages \o us)
  BY <1>5, <1>6, GoodUsers, GoodConcat
<1>8. Follows(messages, Ends(us), messages \o us)
  <2>1. Follows(messages, << >>, messages)
    BY <1>5, FollowsSelf
  <2>2. << >> \in Seq(EventType)
    OBVIOUS
  <2>3. Follows(messages, << >> \o Ends(us), messages \o us)
    BY <1>5, <2>1, <2>2, FollowsEnds
  <2>4. << >> \o Ends(us) = Ends(us)
    BY EndsType, ConcatEmptySeq
  <2>5. QED BY <2>3, <2>4
<1>9. Stem(s)' = messages \o us /\ Conv(s)' = messages \o us
  BY <1>2, <1>3, <1>6 DEF Stem, Conv
<1>10. InStep(s)'
  BY <1>2, <1>3, <1>6, <1>7, <1>8, <1>9 DEF InStep
<1>11. AtWork(s)'
  BY <1>2 DEF AtWork
<1>12. \A q \in Runs : q # s => ~AtWork(q)'
  BY <1>2, <1>4 DEF AtWork, Others
<1>13. s = nextRun' - 1
  BY <1>2, BoundsAssumption DEF Runs
<1>14. Alone'
  BY <1>12, <1>13 DEF Alone
<1>15. AtRest'
  BY <1>11 DEF AtRest
<1>16. QED BY <1>10, <1>12, <1>14, <1>15 DEF OrderNow

LEMMA OrderLoop ==
    ASSUME TypeOK, LoopInv, OrderNow, NEW s \in Runs, LoopStep(s)
    PROVE  OrderNow'
<1>1. AtWork(s) /\ AtWork(s)' /\ Others(s) /\ messages' = messages /\ nextRun' = nextRun
  BY LoopIsAtWork, StaysAtWork, PhaseStep, LoopStepUnchanged
<1>2. InStep(s)'
  BY <1>1, OrderStep DEF OrderNow
<1>3. s = nextRun - 1 /\ \A q \in Runs : q # s => ~AtWork(q)
  BY <1>1 DEF OrderNow, Alone
<1>4. \A q \in Runs : q # s => ~AtWork(q)'
  BY <1>1, <1>3 DEF AtWork, Others
<1>5. Alone'
  BY <1>1, <1>3, <1>4 DEF Alone
<1>6. AtRest'
  BY <1>1 DEF AtRest
<1>7. QED BY <1>2, <1>4, <1>5, <1>6 DEF OrderNow

LEMMA OrderConsume ==
    ASSUME TypeOK, LoopInv, OrderNow, NEW s \in Runs, Consume(s)
    PROVE  OrderNow'
<1>1. PICK es \in Seq(EventType) : es = run[s].events
  BY ConvType
<1>2. /\ Others(s) /\ SameLoop(s) /\ run[s].consumer = "consuming" /\ run'[s].consumer = "consuming"
      /\ es # << >> /\ run'[s].events = Tail(es) /\ es[1] \in EventType
      /\ es[1].kind = "end" => messages' = Append(messages, es[1].message)
      /\ es[1].kind = "start" => messages' = messages
      /\ es[1].kind = "agentEnd" => messages' = messages
  BY <1>1, ConsumeShape
<1>3. es[1].kind \in {"start", "end", "agentEnd"}
  BY <1>2 DEF EventType
<1>4. nextRun' = nextRun /\ nextRun \in Nat
  BY BoundsAssumption DEF Consume, TypeOK
<1>5. AtWork(s)
  BY <1>1, <1>2 DEF AtWork
<1>6. InStep(s) /\ s = nextRun - 1 /\ \A q \in Runs : q # s => ~AtWork(q)
  BY <1>5 DEF OrderNow, Alone
<1>7. messages \in Seq(MessageType) /\ Stem(s) \in Seq(MessageType) /\ Conv(s) \in Seq(MessageType)
  BY ConvType
<1>8. \A c \in Seq(MessageType) : Follows(messages, es, c) => Follows(messages', Tail(es), c)
  <2>1. SUFFICES ASSUME NEW c \in Seq(MessageType), Follows(messages, es, c)
                 PROVE  Follows(messages', Tail(es), c)
    OBVIOUS
  <2>2. /\ es[1].kind = "end" => Follows(Append(messages, es[1].message), Tail(es), c)
        /\ es[1].kind # "end" => Follows(messages, Tail(es), c)
    BY <1>2, <1>7, <2>1, FollowsConsume
  <2>3. QED BY <1>2, <1>3, <2>2
<1>9. Stem(s)' = Stem(s) /\ Conv(s)' = Conv(s) /\ run'[s].closed = run[s].closed
  BY <1>2 DEF SameLoop, SameResponse, Stem, Conv
<1>10. InStep(s)'
  <2>1. CASE run[s].closed = "failed"
    <3>1. PICK c \in Seq(MessageType) : Good(c) /\ Follows(messages, es, c)
      BY <1>1, <1>6, <2>1 DEF InStep
    <3>2. Follows(messages', Tail(es), c)
      BY <1>8, <3>1
    <3>3. QED BY <1>2, <1>9, <2>1, <3>1, <3>2 DEF InStep
  <2>2. CASE run[s].closed # "failed"
    <3>1. Good(Stem(s)) /\ Follows(messages, es, Conv(s))
      BY <1>1, <1>6, <2>2 DEF InStep
    <3>2. Follows(messages', Tail(es), Conv(s))
      BY <1>7, <1>8, <3>1
    <3>3. QED BY <1>2, <1>9, <2>2, <3>1, <3>2 DEF InStep
  <2>3. QED BY <2>1, <2>2
<1>11. \A q \in Runs : q # s => ~AtWork(q)'
  BY <1>2, <1>6 DEF AtWork, Others
<1>12. Alone'
  BY <1>4, <1>6, <1>11 DEF Alone
<1>13. AtRest'
  <2>1. SUFFICES ASSUME ~AtWork(s)'
                 PROVE  /\ Good(messages')
                        /\ messages' = run'[nextRun - 1].ctx
    BY <1>4 DEF AtRest
  <2>2. run[s].closed = "ended" /\ Tail(es) = << >>
    BY <1>2, <1>9, <2>1 DEF AtWork
  <2>3. run[s].at = "ended"
    BY <2>2 DEF LoopInv, Phases
  <2>4. Good(Stem(s)) /\ Follows(messages', Tail(es), Conv(s))
    BY <1>2, <1>9, <1>10, <2>2 DEF InStep
  <2>5. Stem(s) = run[s].ctx /\ Conv(s) = run[s].ctx
    BY <2>3 DEF Stem, Conv
  <2>6. messages' \in Seq(MessageType)
    BY ConsumeShape
  <2>7. messages' = run[s].ctx
    BY <1>7, <2>2, <2>4, <2>5, <2>6, FollowsNothing
  <2>8. run'[s].ctx = run[s].ctx
    BY <1>2 DEF SameLoop
  <2>9. QED BY <1>6, <2>4, <2>5, <2>7, <2>8
<1>14. QED BY <1>10, <1>11, <1>12, <1>13 DEF OrderNow

LEMMA OrderSettle ==
    ASSUME TypeOK, LoopInv, TornInv, OrderNow, NEW s \in Runs, Settle(s), NoPartialCommitted'
    PROVE  OrderNow'
<1>1. /\ Others(s) /\ SameLoop(s) /\ run[s].consumer = "consuming" /\ run'[s].consumer = "finished"
      /\ run[s].events = << >> /\ run[s].closed # "open"
      /\ Leftover(s) \in Seq(MessageType) /\ messages' = messages \o Leftover(s)
  BY SettleShape
<1>2. nextRun' = nextRun /\ nextRun \in Nat /\ messages \in Seq(MessageType)
  BY BoundsAssumption DEF Settle, TypeOK
<1>3. run[s].closed \in {"open", "ended", "failed"} /\ run[s].partial \in MessageType
  <2>1. run[s] \in RunType
    BY DEF TypeOK
  <2>2. QED BY <2>1, RunFields
<1>4. ~AtWork(s)'
  BY <1>1 DEF AtWork
<1>5. \A q \in Runs : q # s => run'[q] = run[q] /\ (AtWork(q)' <=> AtWork(q))
  BY <1>1 DEF AtWork, Others
<1>6. run'[s].ctx = run[s].ctx /\ run'[s].closed = run[s].closed
  BY <1>1 DEF SameLoop
<1>7. CASE run[s].closed = "ended"
  <2>1. ~AtWork(s)
    BY <1>1, <1>7 DEF AtWork
  <2>2. Leftover(s) = << >>
    <3>1. CASE run[s].partial.role = "assistant"
      <4>1. run[s].partial.stop = "partial"
        <5>1. EndAfter(run[s].events, 0) => FALSE
          BY <1>1 DEF EndAfter
        <5>2. QED BY <3>1, <5>1 DEF TornInv, LeftoverTorn
      <4>2. PICK p : p = run[s].partial
        OBVIOUS
      <4>3. PICK l \in Seq(MessageType) : l = Leftover(s)
        BY <1>1
      <4>4. l = <<p>>
        BY <1>7, <3>1, <4>2, <4>3 DEF Leftover
      <4>5. NoPartial(messages \o l)
        BY <1>1, <4>3 DEF NoPartialCommitted, NoPartial
      <4>6. NoPartial(l)
        BY <1>2, <4>5, NoPartialPrefix
      <4>7. 1 \in DOMAIN l /\ l[1] = p
        BY <4>4
      <4>8. QED BY <4>1, <4>2, <4>6, <4>7 DEF NoPartial
    <3>2. CASE run[s].partial.role # "assistant"
      BY <1>7, <3>2 DEF Leftover
    <3>3. QED BY <3>1, <3>2
  <2>3. messages' = messages
    BY <1>1, <1>2, <2>2, ConcatEmptySeq
  <2>4. \A q \in Runs : (AtWork(q)' <=> AtWork(q)) /\ run'[q].ctx = run[q].ctx /\ run'[q].closed = run[q].closed
    BY <1>4, <1>5, <1>6, <2>1
  <2>5. Alone'
    BY <1>2, <2>4 DEF OrderNow, Alone
  <2>6. AtRest'
    <3>1. nextRun > 1 => nextRun - 1 \in Runs
      BY BoundsAssumption DEF TypeOK, Runs
    <3>2. QED BY <1>2, <2>3, <2>4, <3>1 DEF OrderNow, AtRest
  <2>7. \A q \in Runs : AtWork(q)' => InStep(q)'
    <3>1. SUFFICES ASSUME NEW q \in Runs, AtWork(q)' PROVE InStep(q)'
      OBVIOUS
    <3>2. q # s
      BY <1>4, <3>1
    <3>3. run'[q] = run[q] /\ AtWork(q)
      BY <1>5, <3>1, <3>2
    <3>4. InStep(q)
      BY <3>3 DEF OrderNow
    <3>5. QED BY <2>3, <3>3, <3>4 DEF InStep, Stem, Conv
  <2>8. QED BY <2>5, <2>6, <2>7 DEF OrderNow
<1>8. CASE run[s].closed = "failed"
  <2>1. AtWork(s)
    BY <1>1, <1>8 DEF AtWork
  <2>2. InStep(s) /\ s = nextRun - 1 /\ \A q \in Runs : q # s => ~AtWork(q)
    BY <2>1 DEF OrderNow, Alone
  <2>3. PICK c \in Seq(MessageType) : Good(c) /\ Follows(messages, << >>, c)
    BY <1>1, <1>8, <2>2 DEF InStep
  <2>4. Good(messages)
    BY <1>2, <2>3, FollowsNothing
  <2>5. PICK m \in MessageType : m = Assistant(0, 0, "error")
    BY BoundsAssumption, MessageTypes
  <2>6. Good(<<m>>) /\ <<m>> \in Seq(MessageType)
    <3>1. << >> \in Seq(MessageType)
      OBVIOUS
    <3>2. AllResults(<< >>, 0, 0)
      BY DEF AllResults
    <3>3. Good(<<m>> \o << >>)
      BY <2>5, <3>1, <3>2, GoodBlock
    <3>4. PICK u : u = <<m>>
      OBVIOUS
    <3>5. u \in Seq(MessageType)
      BY <3>4
    <3>6. u \o << >> = u
      BY <3>5, ConcatEmptySeq
    <3>7. QED BY <3>3, <3>4, <3>5, <3>6
  <2>7. Leftover(s) = <<m>>
    BY <1>8, <2>5 DEF Leftover
  <2>8. Good(messages')
    BY <1>1, <1>2, <2>4, <2>6, <2>7, GoodConcat
  <2>9. \A q \in Runs : ~AtWork(q)'
    BY <1>4, <1>5, <2>2
  <2>10. AtRest'
    BY <1>2, <1>6, <1>8, <2>2, <2>8 DEF AtRest
  <2>11. QED BY <2>9, <2>10 DEF OrderNow, Alone
<1>9. QED BY <1>1, <1>3, <1>7, <1>8

LEMMA OrderInvStep ==
    ASSUME TypeOK, LoopInv, TornInv, OrderInv, [Next]_vars
    PROVE  OrderInv'
<1>1. SUFFICES ASSUME Orderly' PROVE OrderNow'
  BY DEF OrderInv, OrderNow
<1>2. OrderNow
  BY <1>1, OrderlyBefore DEF OrderInv, OrderNow
<1>3. NoPartialCommitted' /\ ~crossed'
  BY <1>1 DEF Orderly
<1>4. CASE Prompt \/ ContinueQueued \/ ContinueAsIs
  BY <1>2, <1>3, <1>4, OrderStart
<1>5. ASSUME NEW s \in Runs, LoopStep(s) PROVE OrderNow'
  BY <1>2, <1>5, OrderLoop
<1>6. ASSUME NEW s \in Runs, Consume(s) PROVE OrderNow'
  BY <1>2, <1>6, OrderConsume
<1>7. ASSUME NEW s \in Runs, Settle(s) PROVE OrderNow'
  BY <1>2, <1>3, <1>7, OrderSettle
<1>8. ASSUME run' = run, messages' = messages, nextRun' = nextRun PROVE OrderNow'
  BY <1>2, <1>8 DEF OrderNow, Alone, AtRest, AtWork, InStep, Stem, Conv
<1>9. CASE Steer \/ FollowUp \/ PopLastSteer \/ PopLastFollowUp \/ ClearAllQueues \/ Abort
  <2>1. run' = run /\ messages' = messages /\ nextRun' = nextRun
    BY <1>9 DEF Steer, FollowUp, PopLastSteer, PopLastFollowUp, ClearAllQueues, Abort, userUnchanged
  <2>2. QED BY <1>8, <2>1
<1>10. CASE UNCHANGED vars
  BY <1>8, <1>10
<1>11. QED BY <1>4, <1>5, <1>6, <1>7, <1>9, <1>10 DEF Next, Idle

LEMMA InOrder == Spec => []OrderInv
<1>1. Init => TornInv /\ OrderInv
  <2>1. SUFFICES ASSUME Init PROVE TornInv /\ OrderInv
    OBVIOUS
  <2>2. /\ messages = << >> /\ nextRun = 1
        /\ \A r \in Runs : run[r].events = << >> /\ run[r].partial = NoMessage /\ run[r].consumer = "none"
    BY <2>1 DEF Init, FreshRun
  <2>3. TornInv
    BY <2>2, WholeSimple DEF TornInv, LeftoverTorn, NoMessage
  <2>4. \A r \in Runs : ~AtWork(r)
    BY <2>2 DEF AtWork
  <2>5. OrderInv
    BY <2>2, <2>4, GoodEmpty DEF OrderInv, Alone, AtRest
  <2>6. QED BY <2>3, <2>5
<1>2. TypeOK /\ LoopInv /\ TornInv /\ OrderInv /\ [Next]_vars => TornInv' /\ OrderInv'
  BY TornInvStep, OrderInvStep
<1> HIDE DEF vars, queues, agentVars, counters
<1>3. QED BY <1>1, <1>2, TypeAndLoop, PTL DEF Spec

\* What a request sends, and the transcript between runs, are paired.
THEOREM ToolPairingCorrect == Spec => []ToolPairing
<1>1. TypeOK /\ LoopInv /\ OrderInv => ToolPairing
  <2>1. SUFFICES ASSUME TypeOK, LoopInv, OrderInv, Orderly PROVE
                   /\ \A r \in Runs : run[r].at = "request" => Paired(run[r].ctx)
                   /\ AllFinished => Paired(messages)
    BY DEF ToolPairing
  <2>2. ASSUME NEW r \in Runs, run[r].at = "request" PROVE Paired(run[r].ctx)
    <3>1. run[r].closed = "open" /\ run[r].consumer = "consuming"
      <4>1. run[r] \in RunType
        BY <2>1 DEF TypeOK
      <4>2. run[r].consumer \in {"none", "consuming", "finished"}
        BY <4>1, RunFields
      <4>3. QED BY <2>1, <2>2, <4>2 DEF LoopInv, Phases
    <3>2. AtWork(r)
      BY <3>1 DEF AtWork
    <3>3. Good(Stem(r))
      BY <2>1, <3>1, <3>2 DEF OrderInv, InStep
    <3>4. QED BY <2>2, <3>3 DEF Stem, Good
  <2>3. AllFinished => Paired(messages)
    BY <2>1 DEF AllFinished, AtWork, OrderInv, AtRest, Good
  <2>4. QED BY <2>2, <2>3
<1>2. QED BY <1>1, TypeAndLoop, InOrder, PTL

\* When no run is left, the transcript is the conversation of the last one.
THEOREM TranscriptCorrect == Spec => []TranscriptMatchesContext
<1>1. OrderInv => TranscriptMatchesContext
  BY DEF OrderInv, AtRest, TranscriptMatchesContext, AllFinished, AtWork
<1>2. QED BY <1>1, InOrder, PTL

-----------------------------------------------------------------------------
(***************************************************************************)
(* Every message is answered.  A run owes an answer while it has more to   *)
(* do than look for messages, when it has failed, and when the consumer    *)
(* will be left with a torn-off response to commit.                        *)
(***************************************************************************)
Answers(m) == m.role = "assistant" /\ m.stop # "partial"
AnswerAfter(es, k) == \E j \in (k + 1)..Len(es) : es[j].kind = "end" /\ Answers(es[j].message)
\* Once the events es are consumed, the partial response is torn off.
TornOff(m) == m.role = "assistant" /\ m.stop = "partial"
LeavesTorn(es, p) ==
    \/ TornOff(p) /\ \A i \in 1..Len(es) : es[i].kind = "agentEnd"
    \/ \E k \in 1..Len(es) :
         /\ es[k].kind = "start" /\ TornOff(es[k].message)
         /\ \A j \in (k + 1)..Len(es) : es[j].kind = "agentEnd"
Debt(r) ==
    /\ run[r].closed = "open" /\ run[r].at \notin {"idle", "yield", "ended"}
    /\ run[r].at = "poll" => run[r].hasMore
Owes(r) == run[r].closed = "failed" \/ Debt(r) \/ LeavesTorn(run[r].events, run[r].partial)

\* A response is torn off as long as it is streamed.
StreamInv == \A r \in Runs : run[r].at = "streaming" => LeavesTorn(run[r].events, run[r].partial)
UsersOnStream(r) ==
    \A k \in 1..Len(run[r].events) :
        run[r].events[k].kind = "end" /\ run[r].events[k].message.role = "user"
            => Owes(r) \/ AnswerAfter(run[r].events, k)
AnswerComes(r) == run[r].consumer = "consuming" /\ (Owes(r) \/ AnswerAfter(run[r].events, 0))
AnsweredLater(i) == \E j \in (i + 1)..Len(messages) : Answers(messages[j])
AnswerNow ==
    /\ \A r \in Runs : UsersOnStream(r)
    /\ \A i \in 1..Len(messages) : messages[i].role = "user" =>
          AnsweredLater(i) \/ \E r \in Runs : AnswerComes(r)
AnswerInv == NoPartialCommitted => AnswerNow

LEMMA TornByStart ==
    ASSUME NEW es \in Seq(EventType), NEW e \in EventType, NEW p, e.kind = "start", TornOff(e.message)
    PROVE  LeavesTorn(es \o <<e>>, p)
<1>1. PICK n \in Nat : n = Len(es)
  OBVIOUS
<1>2. PICK c : c = es \o <<e>>
  OBVIOUS
<1>3. Len(c) = n + 1 /\ c[n + 1] = e
  BY <1>1, <1>2
<1>4. n + 1 \in 1..(n + 1) /\ \A j \in (n + 1 + 1)..(n + 1) : FALSE
  OBVIOUS
<1>5. LeavesTorn(c, p)
  BY <1>3, <1>4 DEF LeavesTorn
<1>6. QED BY <1>2, <1>5

LEMMA AgentEndBehind ==
    ASSUME NEW es \in Seq(EventType), NEW p
    PROVE  /\ LeavesTorn(es, p) => LeavesTorn(es \o AgentEnd, p)
           /\ Len(es \o AgentEnd) = Len(es) + 1
           /\ \A i \in 1..Len(es) : (es \o AgentEnd)[i] = es[i]
           /\ (es \o AgentEnd)[Len(es) + 1].kind = "agentEnd"
<1>1. PICK e : e = [kind |-> "agentEnd", message |-> NoMessage]
  OBVIOUS
<1>2. AgentEnd = <<e>> /\ e.kind = "agentEnd"
  BY <1>1 DEF AgentEnd
<1>3. PICK c : c = es \o <<e>>
  OBVIOUS
<1>4. Len(c) = Len(es) + 1 /\ (\A i \in 1..Len(es) : c[i] = es[i]) /\ c[Len(es) + 1] = e
  BY <1>3
<1>5. PICK n \in Nat : n = Len(es)
  OBVIOUS
<1>6. \A i \in 1..(n + 1) : i \in 1..n \/ i = n + 1
  OBVIOUS
<1>7. ASSUME LeavesTorn(es, p) PROVE LeavesTorn(c, p)
  <2>1. CASE TornOff(p) /\ \A i \in 1..n : es[i].kind = "agentEnd"
    <3>1. \A i \in 1..(n + 1) : c[i].kind = "agentEnd"
      BY <1>2, <1>4, <1>5, <1>6, <2>1
    <3>2. QED BY <1>4, <1>5, <2>1, <3>1 DEF LeavesTorn
  <2>2. ASSUME NEW k \in 1..n, es[k].kind = "start", TornOff(es[k].message),
               \A j \in (k + 1)..n : es[j].kind = "agentEnd"
        PROVE  LeavesTorn(c, p)
    <3>1. ASSUME NEW j \in (k + 1)..(n + 1) PROVE c[j].kind = "agentEnd"
      <4>1. CASE j = n + 1
        BY <1>2, <1>4, <1>5, <4>1
      <4>2. CASE j # n + 1
        <5>1. j \in 1..n /\ j \in (k + 1)..n
          BY <4>2
        <5>2. QED BY <1>4, <1>5, <2>2, <5>1
      <4>3. QED BY <4>1, <4>2
    <3>2. k \in 1..(n + 1)
      OBVIOUS
    <3>3. c[k] = es[k]
      BY <1>4, <1>5
    <3>4. QED BY <1>4, <1>5, <2>2, <3>1, <3>2, <3>3 DEF LeavesTorn
  <2>3. QED BY <1>5, <1>7, <2>1, <2>2 DEF LeavesTorn
<1>8. QED BY <1>2, <1>3, <1>4, <1>7

LEMMA LengthOne ==
    ASSUME NEW S, NEW s \in Seq(S), s # << >>
    PROVE  \E n \in Nat : Len(s) = n + 1
<1>1. Len(s) - 1 \in Nat /\ Len(s) = (Len(s) - 1) + 1
  OBVIOUS
<1>2. QED BY <1>1

LEMMA TornTail ==
    ASSUME NEW es \in Seq(EventType), es # << >>, NEW p, NEW q, LeavesTorn(es, p),
           es[1].kind = "start" => q = es[1].message,
           es[1].kind = "agentEnd" => q = p
    PROVE  LeavesTorn(Tail(es), q)
<1>1. PICK n \in Nat : Len(es) = n + 1
  BY LengthOne
<1>2. PICK fs : fs = Tail(es)
  OBVIOUS
<1>3. Len(fs) = n /\ \A i \in 1..n : fs[i] = es[i + 1]
  BY <1>1, <1>2
<1>4. \A i \in 1..n : i + 1 \in 1..(n + 1)
  OBVIOUS
<1>5. CASE TornOff(p) /\ \A i \in 1..(n + 1) : es[i].kind = "agentEnd"
  <2>1. es[1].kind = "agentEnd"
    <3>1. 1 \in 1..(n + 1)
      OBVIOUS
    <3>2. QED BY <1>5, <3>1
  <2>2. \A i \in 1..n : fs[i].kind = "agentEnd"
    BY <1>3, <1>4, <1>5
  <2>3. LeavesTorn(fs, q)
    BY <1>3, <1>5, <2>1, <2>2 DEF LeavesTorn
  <2>4. QED BY <1>2, <2>3
<1>6. ASSUME NEW k \in 1..(n + 1), es[k].kind = "start", TornOff(es[k].message),
             \A j \in (k + 1)..(n + 1) : es[j].kind = "agentEnd"
      PROVE  LeavesTorn(fs, q)
  <2>1. CASE k = 1
    <3>1. TornOff(q)
      BY <1>6, <2>1
    <3>2. \A i \in 1..n : i + 1 \in (k + 1)..(n + 1)
      BY <2>1
    <3>3. \A i \in 1..n : fs[i].kind = "agentEnd"
      <4>1. \A i \in 1..n : es[i + 1].kind = "agentEnd"
        BY <1>6, <3>2
      <4>2. \A i \in 1..n : fs[i] = es[i + 1]
        BY <1>3
      <4>3. QED BY ONLY <4>1, <4>2
    <3>4. QED BY <1>3, <3>1, <3>3 DEF LeavesTorn
  <2>2. CASE k # 1
    <3>1. PICK x \in 1..n : k = x + 1
      <4>1. k - 1 \in 1..n /\ k = (k - 1) + 1
        BY <2>2
      <4>2. QED BY <4>1
    <3>2. fs[x] = es[k]
      BY <1>3, <3>1
    <3>3. \A j \in (x + 1)..n : j \in 1..n /\ j + 1 \in (k + 1)..(n + 1)
      BY <3>1
    <3>4. \A j \in (x + 1)..n : fs[j].kind = "agentEnd"
      <4>1. \A j \in (x + 1)..n : fs[j] = es[j + 1]
        BY <1>3, <3>3
      <4>2. \A j \in (x + 1)..n : es[j + 1].kind = "agentEnd"
        BY <1>6, <3>3
      <4>3. QED BY ONLY <4>1, <4>2
    <3>5. QED BY <1>3, <1>6, <3>2, <3>4 DEF LeavesTorn
  <2>3. QED BY <2>1, <2>2
<1>7. QED BY <1>1, <1>2, <1>5, <1>6 DEF LeavesTorn

LEMMA StreamInvStep ==
    ASSUME TypeOK, LoopInv, StreamInv, [Next]_vars
    PROVE  StreamInv'
<1>1. CASE Prompt \/ ContinueQueued \/ ContinueAsIs
  <2>1. PICK s \in Runs : s = nextRun
    BY <1>1, StartShape
  <2>2. Others(s) /\ run'[s].at = "poll"
    BY <1>1, <2>1, StartShape
  <2>3. QED BY <2>2 DEF StreamInv, Others
<1>2. ASSUME NEW s \in Runs, LoopStep(s) PROVE StreamInv'
  <2>1. /\ Others(s) /\ run[s].events \in Seq(EventType)
        /\ run[s].at \in {"streaming", "tools"} => run[s].ctx # << >>
    BY <1>2, PhaseStep, ConvType
  <2>2. run'[s].at = "streaming" => LeavesTorn(run'[s].events, run'[s].partial)
    <3>1. CASE OpenResponse(s)
      <4>1. PICK n \in 0..MaxCalls :
              /\ run'[s].events = run[s].events \o Starts(Assistant(nextTurn, n, "partial"))
              /\ Assistant(nextTurn, n, "partial") \in MessageType
        BY <3>1, OpenResponseShape
      <4>2. PICK e \in EventType : e = [kind |-> "start", message |-> Assistant(nextTurn, n, "partial")]
        BY <4>1, EventFields
      <4>3. e.kind = "start" /\ TornOff(e.message) /\ Starts(Assistant(nextTurn, n, "partial")) = <<e>>
        BY <4>2 DEF Assistant, Starts, TornOff
      <4>4. LeavesTorn(run[s].events \o <<e>>, run'[s].partial)
        BY <2>1, <4>3, TornByStart
      <4>5. QED BY <4>1, <4>3, <4>4
    <3>2. CASE PollSteering(s) \/ BeginTurn(s) \/ FailResponse(s) \/ AnswerCall(s) \/ EndTools(s) \/ Yield(s)
      BY <3>2, PollSteeringShape, BeginTurnShape, FailResponseShape, AnswerCallShape, EndToolsShape, YieldShape
    <3>3. CASE LeakResponse(s)
      <4>1. run[s].ctx # << >>
        BY <2>1, <3>3 DEF LeakResponse
      <4>2. QED BY <3>3, <4>1, LeakResponseShape
    <3>4. CASE CompleteResponse(s) \/ AbortResponse(s)
      <4>1. PICK base \in Seq(MessageType), opening \in Seq(EventType), x \in 0..MaxTurns, n \in 0..MaxCalls,
                 stop \in {"stop", "length", "error", "aborted"} :
                   Finalize(s, base, opening, Assistant(x, n, stop))
        BY <2>1, <3>4, ResponseEndsShape
      <4>2. PICK ph \in Seq(MessageType), tl \in Seq(EventType) :
              Finalized(s, base, opening, x, n, stop, ph, tl)
        BY <4>1, FinalizeShape
      <4>3. QED BY <4>2 DEF Finalized
    <3>5. QED BY <1>2, <3>1, <3>2, <3>3, <3>4 DEF LoopStep
  <2>3. QED BY <2>1, <2>2 DEF StreamInv, Others
<1>3. ASSUME NEW s \in Runs, Consume(s) PROVE StreamInv'
  <2>1. PICK es \in Seq(EventType) : es = run[s].events
    BY ConvType
  <2>2. /\ Others(s) /\ es # << >> /\ run'[s].events = Tail(es) /\ run'[s].at = run[s].at
        /\ es[1].kind = "start" => run'[s].partial = es[1].message
        /\ es[1].kind = "agentEnd" => run'[s].partial = run[s].partial
    BY <1>3, <2>1, ConsumeShape DEF SameLoop
  <2>3. run'[s].at = "streaming" => LeavesTorn(run'[s].events, run'[s].partial)
    <3>1. SUFFICES ASSUME run[s].at = "streaming" PROVE LeavesTorn(Tail(es), run'[s].partial)
      BY <2>2
    <3>2. LeavesTorn(es, run[s].partial)
      BY <2>1, <3>1 DEF StreamInv
    <3>3. QED BY <2>2, <3>2, TornTail
  <2>4. QED BY <2>2, <2>3 DEF StreamInv, Others
<1>4. ASSUME NEW s \in Runs, Settle(s) PROVE StreamInv'
  <2>1. Others(s) /\ run'[s].at = run[s].at /\ run[s].closed # "open"
    BY <1>4, SettleShape DEF SameLoop
  <2>2. run[s].at = "ended"
    BY <2>1 DEF LoopInv, Phases
  <2>3. QED BY <2>1, <2>2 DEF StreamInv, Others
<1>5. CASE Steer \/ FollowUp \/ PopLastSteer \/ PopLastFollowUp \/ ClearAllQueues \/ Abort
  BY <1>5 DEF Steer, FollowUp, PopLastSteer, PopLastFollowUp, ClearAllQueues, Abort, userUnchanged, StreamInv
<1>6. CASE UNCHANGED vars
  BY <1>6 DEF StreamInv
<1>7. QED BY <1>1, <1>2, <1>3, <1>4, <1>5, <1>6 DEF Next, Idle

-----------------------------------------------------------------------------
LEMMA AnswerFields ==
    /\ \A t, n, stop : stop # "partial" => Answers(Assistant(t, n, stop))
    /\ \A t, k : ToolResult(t, k).role # "user"
BY DEF Answers, Assistant, ToolResult

\* A run that owes an answer answers everything its stream brings.
LEMMA OwingAnswers ==
    ASSUME NEW r \in Runs, Owes(r)', SameConsumer(r)
    PROVE  UsersOnStream(r)' /\ (AnswerComes(r) => AnswerComes(r)')
<1>1. UsersOnStream(r)'
  BY DEF UsersOnStream
<1>2. AnswerComes(r) => AnswerComes(r)'
  BY DEF AnswerComes, SameConsumer
<1>3. QED BY <1>1, <1>2

LEMMA QuietStep ==
    ASSUME NEW r \in Runs, run'[r].events = run[r].events, SameConsumer(r),
           Owes(r) => Owes(r)', UsersOnStream(r)
    PROVE  UsersOnStream(r)' /\ (AnswerComes(r) => AnswerComes(r)')
<1>1. UsersOnStream(r)'
  BY DEF UsersOnStream
<1>2. AnswerComes(r) => AnswerComes(r)'
  BY DEF AnswerComes, SameConsumer
<1>3. QED BY <1>1, <1>2

\* A response that ends answers whatever is on the stream.
LEMMA ResponseAnswers ==
    ASSUME NEW es \in Seq(EventType), NEW m \in MessageType, Answers(m), NEW ph \in Seq(MessageType),
           NEW tl, NEW t, NEW n,
           ph = << >> \/ AllResults(ph, t, n), tl = << >> \/ tl = AgentEnd,
           NEW fs, fs = (es \o Ends(<<m>> \o ph)) \o tl
    PROVE  /\ AnswerAfter(fs, 0)
           /\ \A k \in 1..Len(fs) : fs[k].kind = "end" /\ fs[k].message.role = "user" => AnswerAfter(fs, k)
<1>1. PICK a \in Nat : a = Len(es)
  OBVIOUS
<1>2. PICK b \in Nat : b = Len(ph)
  OBVIOUS
<1>3. PICK u : u = <<m>> \o ph
  OBVIOUS
<1>4. /\ u \in Seq(MessageType) /\ Len(u) = 1 + b /\ u[1] = m
      /\ \A i \in 1..(1 + b) : i = 1 \/ (i - 1 \in 1..b /\ u[i] = ph[i - 1])
  BY <1>2, <1>3, ConsShape
<1>5. PICK en : en = Ends(u)
  OBVIOUS
<1>6. /\ en \in Seq(EventType) /\ Len(en) = 1 + b
      /\ \A i \in 1..(1 + b) : en[i].kind = "end" /\ en[i].message = u[i]
  BY <1>4, <1>5, EndsType
<1>7. PICK c : c = es \o en
  OBVIOUS
<1>8. PICK l \in Nat : l = a + (1 + b)
  OBVIOUS
<1>9. /\ c \in Seq(EventType) /\ Len(c) = Len(es) + Len(en)
      /\ \A i \in 1..Len(en) : c[Len(es) + i] = en[i]
      /\ \A i \in 1..(Len(es) + Len(en)) : i \in 1..Len(es) \/ (i - Len(es) \in 1..Len(en) /\ c[i] = en[i - Len(es)])
  <2>1. es \in Seq(EventType) /\ en \in Seq(EventType)
    BY <1>6
  <2>2. /\ es \o en \in Seq(EventType) /\ Len(es \o en) = Len(es) + Len(en)
        /\ \A i \in 1..Len(en) : (es \o en)[Len(es) + i] = en[i]
        /\ \A i \in 1..(Len(es) + Len(en)) :
              i \in 1..Len(es) \/ (i - Len(es) \in 1..Len(en) /\ (es \o en)[i] = en[i - Len(es)])
    BY ONLY <2>1, ConcatShape
  <2>3. QED BY <1>7, <2>2
<1>10. /\ Len(c) = l /\ 1 \in 1..(1 + b) /\ a + 1 \in 1..l
       /\ \A i \in 1..(1 + b) : c[a + i] = en[i]
       /\ \A i \in 1..l : i \in 1..a \/ (i - a \in 1..(1 + b) /\ c[i] = en[i - a])
  <2>1. Len(en) = 1 + b /\ Len(es) = a
    BY <1>1, <1>6
  <2>2. /\ Len(c) = a + (1 + b)
        /\ \A i \in 1..(1 + b) : c[a + i] = en[i]
        /\ \A i \in 1..(a + (1 + b)) : i \in 1..a \/ (i - a \in 1..(1 + b) /\ c[i] = en[i - a])
    BY <1>9, <2>1
  <2>3. 1 \in 1..(1 + b) /\ a + 1 \in 1..l
    BY <1>8
  <2>4. QED BY <1>8, <2>2, <2>3
<1>11. /\ Len(fs) \in Nat /\ Len(fs) >= l
       /\ \A i \in 1..l : fs[i] = c[i]
       /\ \A i \in 1..Len(fs) : i \in 1..l \/ fs[i].kind = "agentEnd"
  <2>1. CASE tl = << >>
    <3>1. fs = c
      BY <1>3, <1>5, <1>7, <1>9, <2>1, ConcatEmptySeq
    <3>2. Len(fs) = l /\ \A i \in 1..l : fs[i] = c[i]
      BY <1>10, <3>1
    <3>3. l >= l
      OBVIOUS
    <3>4. QED BY <3>2, <3>3
  <2>2. CASE tl = AgentEnd
    <3>1. fs = c \o AgentEnd
      BY <1>3, <1>5, <1>7, <2>2
    <3>2. /\ Len(fs) = Len(c) + 1 /\ \A i \in 1..Len(c) : fs[i] = c[i]
          /\ fs[Len(c) + 1].kind = "agentEnd"
      BY <1>9, <3>1, AgentEndBehind
    <3>3. Len(fs) = l + 1 /\ (\A i \in 1..l : fs[i] = c[i]) /\ fs[l + 1].kind = "agentEnd"
      BY <1>10, <3>2
    <3>4. \A i \in 1..(l + 1) : i \in 1..l \/ i = l + 1
      OBVIOUS
    <3>5. \A i \in 1..Len(fs) : i \in 1..l \/ fs[i].kind = "agentEnd"
      BY <3>3, <3>4
    <3>6. l + 1 \in Nat /\ l + 1 >= l
      OBVIOUS
    <3>7. QED BY <3>3, <3>5, <3>6
  <2>3. QED BY <2>1, <2>2
<1>12. fs[a + 1].kind = "end" /\ fs[a + 1].message = m
  <2>1. fs[a + 1] = c[a + 1]
    BY <1>10, <1>11
  <2>2. c[a + 1] = en[1]
    BY <1>10
  <2>3. en[1].kind = "end" /\ en[1].message = u[1]
    BY <1>6, <1>10
  <2>4. QED BY <1>4, <2>1, <2>2, <2>3
<1>13. ASSUME NEW k \in 0..a PROVE AnswerAfter(fs, k)
  <2>1. PICK f \in Nat : f = Len(fs)
    BY <1>11
  <2>2. a + 1 <= f
    BY <1>8, <1>11, <2>1
  <2>3. a + 1 \in (k + 1)..f
    BY <2>2
  <2>4. QED BY <1>12, <2>1, <2>3 DEF AnswerAfter
<1>14. ASSUME NEW k \in 1..Len(fs), fs[k].kind = "end", fs[k].message.role = "user"
       PROVE  k \in 1..a
  <2>1. k \in 1..l
    BY <1>11, <1>14
  <2>2. ASSUME k - a \in 1..(1 + b), c[k] = en[k - a] PROVE FALSE
    <3>1. fs[k].message = u[k - a]
      BY <1>6, <1>11, <2>1, <2>2
    <3>2. CASE k - a = 1
      <4>1. u[k - a] = m
        BY <1>4, <3>2
      <4>2. QED BY <1>14, <3>1, <4>1 DEF Answers
    <3>3. CASE k - a # 1
      <4>1. PICK x \in 1..b : x = (k - a) - 1 /\ u[k - a] = ph[x]
        BY <1>4, <2>2, <3>3
      <4>2. b = n /\ AllResults(ph, t, n)
        <5>1. ph # << >>
          BY <1>2, <4>1
        <5>2. QED BY <1>2, <5>1 DEF AllResults
      <4>3. PICK y \in 1..n : ph[x] = ToolResult(t, y)
        BY <4>1, <4>2 DEF AllResults
      <4>4. ph[x].role # "user"
        BY <4>3, AnswerFields
      <4>5. QED BY <1>14, <3>1, <4>1, <4>4
    <3>4. QED BY <3>2, <3>3
  <2>3. QED BY <1>10, <2>1, <2>2
<1>15. 0 \in 0..a /\ \A k \in 1..a : k \in 0..a
  OBVIOUS
<1>16. QED BY <1>13, <1>14, <1>15

LEMMA AnswerStep ==
    ASSUME TypeOK, LoopInv, StreamInv, NEW r \in Runs, LoopStep(r), UsersOnStream(r)
    PROVE  UsersOnStream(r)' /\ (AnswerComes(r) => AnswerComes(r)')
<1>1. /\ run[r].events \in Seq(EventType)
      /\ run[r].at \in {"streaming", "tools"} => run[r].ctx # << >>
  BY ConvType
<1>2. run[r].closed = "open" /\ SameConsumer(r)
  BY LoopIsAtWork, PhaseStep
<1>3. SameConsumer(r) => run'[r].partial = run[r].partial
  BY DEF SameConsumer
<1>4. CASE PollSteering(r)
  <2>1. /\ run[r].at = "poll" /\ run'[r].at \in {"turn", "yield"} /\ run'[r].events = run[r].events
        /\ run[r].hasMore => run'[r].at = "turn"
        /\ run'[r].closed = run[r].closed
    BY <1>4, PollSteeringShape
  <2>2. Owes(r) => Owes(r)'
    BY <1>2, <1>3, <2>1 DEF Owes, Debt
  <2>3. QED BY <1>2, <2>1, <2>2, QuietStep
<1>5. CASE BeginTurn(r)
  <2>1. Owes(r)'
    BY <1>2, <1>5, BeginTurnShape DEF Owes, Debt
  <2>2. QED BY <1>2, <2>1, OwingAnswers
<1>6. CASE OpenResponse(r)
  <2>1. Owes(r)'
    BY <1>2, <1>6, OpenResponseShape DEF Owes, Debt
  <2>2. QED BY <1>2, <2>1, OwingAnswers
<1>7. CASE CompleteResponse(r) \/ AbortResponse(r)
  <2>1. PICK base \in Seq(MessageType), opening \in Seq(EventType), x \in 0..MaxTurns, n \in 0..MaxCalls,
             stop \in {"stop", "length", "error", "aborted"} :
               Finalize(r, base, opening, Assistant(x, n, stop))
    BY <1>1, <1>7, ResponseEndsShape
  <2>2. PICK ph \in Seq(MessageType), tl \in Seq(EventType) : Finalized(r, base, opening, x, n, stop, ph, tl)
    BY <2>1, FinalizeShape
  <2>3. PICK m \in MessageType : m = Assistant(x, n, stop)
    BY <2>2 DEF Finalized
  <2>4. Answers(m)
    BY <2>3, AnswerFields
  <2>5. (ph = << >> \/ AllResults(ph, x, n)) /\ (tl = << >> \/ tl = AgentEnd)
    BY <2>2 DEF Finalized
  <2>6. PICK e1 \in Seq(EventType) : e1 = run[r].events \o opening
    BY <1>1, ConcatShape
  <2>7. PICK fs : fs = run'[r].events
    OBVIOUS
  <2>8. fs = (e1 \o Ends(<<m>> \o ph)) \o tl
    BY <2>2, <2>3, <2>6, <2>7 DEF Finalized
  <2>9. /\ AnswerAfter(fs, 0)
        /\ \A k \in 1..Len(fs) : fs[k].kind = "end" /\ fs[k].message.role = "user" => AnswerAfter(fs, k)
    BY <2>4, <2>5, <2>8, ResponseAnswers
  <2>10. UsersOnStream(r)'
    BY <2>7, <2>9 DEF UsersOnStream
  <2>11. AnswerComes(r) => AnswerComes(r)'
    BY <1>2, <2>7, <2>9 DEF AnswerComes, SameConsumer
  <2>12. QED BY <2>10, <2>11
<1>8. CASE FailResponse(r)
  <2>1. Owes(r)'
    BY <1>8, FailResponseShape DEF Owes
  <2>2. QED BY <1>2, <2>1, OwingAnswers
<1>9. CASE LeakResponse(r)
  <2>1. run[r].at = "streaming"
    BY <1>9 DEF LeakResponse
  <2>2. run'[r].events = run[r].events
    BY <1>1, <1>9, <2>1, LeakResponseShape
  <2>3. Owes(r)'
    BY <1>2, <1>3, <2>1, <2>2 DEF Owes, StreamInv
  <2>4. QED BY <1>2, <2>3, OwingAnswers
<1>10. CASE AnswerCall(r)
  <2>1. Owes(r)'
    BY <1>2, <1>10, AnswerCallShape DEF Owes, Debt
  <2>2. QED BY <1>2, <2>1, OwingAnswers
<1>11. CASE EndTools(r)
  <2>1. run[r].hasMore /\ run[r].at = "tools"
    BY <1>11, EndToolsShape DEF LoopInv, InTheMaking
  <2>2. Owes(r)'
    BY <1>2, <1>11, <2>1, EndToolsShape DEF Owes, Debt
  <2>3. QED BY <1>2, <2>2, OwingAnswers
<1>12. CASE Yield(r)
  <2>1. run[r].at = "yield"
    BY <1>12, YieldShape
  <2>2. CASE run'[r].at = "turn" /\ run'[r].closed = run[r].closed
    <3>1. Owes(r)'
      BY <1>2, <2>2 DEF Owes, Debt
    <3>2. QED BY <1>2, <3>1, OwingAnswers
  <2>3. CASE run'[r].closed = "ended" /\ run'[r].events = run[r].events \o AgentEnd
    <3>1. PICK es \in Seq(EventType) : es = run[r].events
      BY <1>1
    <3>2. PICK p : p = run[r].partial
      OBVIOUS
    <3>3. PICK fs : fs = es \o AgentEnd
      OBVIOUS
    <3>4. PICK n \in Nat : n = Len(es)
      OBVIOUS
    <3>5. /\ LeavesTorn(es, p) => LeavesTorn(fs, p)
          /\ Len(fs) = n + 1 /\ (\A i \in 1..n : fs[i] = es[i]) /\ fs[n + 1].kind = "agentEnd"
      BY <3>3, <3>4, AgentEndBehind
    <3>6. Owes(r) => Owes(r)'
      BY <1>2, <1>3, <2>1, <2>3, <3>1, <3>2, <3>3, <3>5 DEF Owes, Debt
    <3>7. ASSUME NEW k \in 0..n, AnswerAfter(es, k) PROVE AnswerAfter(fs, k)
      <4>1. PICK j \in (k + 1)..n : es[j].kind = "end" /\ Answers(es[j].message)
        BY <3>4, <3>7 DEF AnswerAfter
      <4>2. j \in 1..n /\ j \in (k + 1)..(n + 1)
        OBVIOUS
      <4>3. fs[j] = es[j]
        BY <3>5, <4>2
      <4>4. QED BY <3>5, <4>1, <4>2, <4>3 DEF AnswerAfter
    <3>8. ASSUME NEW k \in 1..(n + 1), fs[k].kind = "end", fs[k].message.role = "user"
          PROVE  Owes(r)' \/ AnswerAfter(fs, k)
      <4>1. k # n + 1
        BY <3>5, <3>8
      <4>2. k \in 1..n /\ k \in 0..n
        BY <4>1
      <4>3. fs[k] = es[k]
        BY <3>5, <4>2
      <4>4. Owes(r) \/ AnswerAfter(es, k)
        BY <3>1, <3>4, <3>8, <4>2, <4>3 DEF UsersOnStream
      <4>5. QED BY <3>6, <3>7, <4>2, <4>4
    <3>9. run'[r].events = fs
      BY <2>3, <3>1, <3>3
    <3>10. UsersOnStream(r)'
      BY <3>5, <3>8, <3>9 DEF UsersOnStream
    <3>11. 0 \in 0..n
      OBVIOUS
    <3>12. AnswerComes(r) => AnswerComes(r)'
      BY <1>2, <3>1, <3>6, <3>7, <3>9, <3>11 DEF AnswerComes, SameConsumer
    <3>13. QED BY <3>10, <3>12
  <2>4. \/ run'[r].at = "turn" /\ run'[r].closed = run[r].closed
        \/ run'[r].closed = "ended" /\ run'[r].events = run[r].events \o AgentEnd
    BY <1>12, YieldShape
  <2>5. QED BY <2>2, <2>3, <2>4
<1>13. QED
  BY <1>4, <1>5, <1>6, <1>7, <1>8, <1>9, <1>10, <1>11, <1>12 DEF LoopStep

LEMMA LaterKept ==
    ASSUME messages \in Seq(MessageType), NEW l \in Seq(MessageType), messages' = messages \o l
    PROVE  /\ Len(messages) \in Nat /\ Len(l) \in Nat /\ Len(messages') = Len(messages) + Len(l)
           /\ \A i \in 1..Len(messages) :
                 messages'[i] = messages[i] /\ (AnsweredLater(i) => AnsweredLater(i)')
           /\ \A i \in 1..Len(l) : messages'[Len(messages) + i] = l[i]
<1>1. PICK n \in Nat : n = Len(messages)
  OBVIOUS
<1>2. PICK b \in Nat : b = Len(l)
  OBVIOUS
<1>3. PICK c : c = messages'
  OBVIOUS
<1>4. /\ Len(c) = Len(messages) + Len(l)
      /\ \A i \in 1..Len(messages) : c[i] = messages[i]
      /\ \A i \in 1..Len(l) : c[Len(messages) + i] = l[i]
  BY <1>3, ConcatShape
<1>5. Len(c) = n + b /\ \A i \in 1..n : c[i] = messages[i]
  BY <1>1, <1>2, <1>4
<1>6. ASSUME NEW i \in 1..n, NEW j \in (i + 1)..n, Answers(messages[j])
      PROVE  \E x \in (i + 1)..Len(c) : Answers(c[x])
  <2>1. j \in (i + 1)..(n + b) /\ j \in 1..n
    OBVIOUS
  <2>2. c[j] = messages[j]
    BY <1>5, <2>1
  <2>3. QED BY <1>5, <1>6, <2>1, <2>2
<1>7. \A i \in 1..n : AnsweredLater(i) => AnsweredLater(i)'
  BY <1>1, <1>3, <1>6 DEF AnsweredLater
<1>8. QED BY <1>1, <1>2, <1>3, <1>4, <1>7

LEMMA AnswerTail ==
    ASSUME NEW es \in Seq(EventType), es # << >>
    PROVE  /\ \A k \in 1..Len(Tail(es)) :
                 Tail(es)[k] = es[k + 1] /\ k + 1 \in 1..Len(es) /\ (AnswerAfter(es, k + 1) => AnswerAfter(Tail(es), k))
           /\ AnswerAfter(es, 1) => AnswerAfter(Tail(es), 0)
           /\ AnswerAfter(es, 0) => AnswerAfter(Tail(es), 0) \/ (es[1].kind = "end" /\ Answers(es[1].message))
           /\ 1 \in 1..Len(es)
<1>1. PICK n \in Nat : Len(es) = n + 1
  <2>1. Len(es) \in Nat /\ Len(es) # 0
    OBVIOUS
  <2>2. QED BY <2>1
<1>2. PICK fs : fs = Tail(es)
  OBVIOUS
<1>3. Len(fs) = n /\ \A i \in 1..n : fs[i] = es[i + 1]
  BY <1>1, <1>2
<1>4. ASSUME NEW k \in 0..n, NEW j \in ((k + 1) + 1)..(n + 1), es[j].kind = "end", Answers(es[j].message)
      PROVE  AnswerAfter(fs, k)
  <2>1. PICK x \in (k + 1)..n : j = x + 1 /\ x \in 1..n
    <3>1. j - 1 \in (k + 1)..n /\ j = (j - 1) + 1 /\ j - 1 \in 1..n
      OBVIOUS
    <3>2. QED BY <3>1
  <2>2. fs[x] = es[j]
    BY <1>3, <2>1
  <2>3. QED BY <1>3, <1>4, <2>1, <2>2 DEF AnswerAfter
<1>5. \A k \in 0..n : AnswerAfter(es, k + 1) => AnswerAfter(fs, k)
  BY <1>1, <1>4 DEF AnswerAfter
<1>6. \A k \in 1..n : k \in 0..n /\ k + 1 \in 1..(n + 1)
  OBVIOUS
<1>7. AnswerAfter(es, 1) => AnswerAfter(fs, 0)
  <2>1. 0 \in 0..n /\ 0 + 1 = 1
    OBVIOUS
  <2>2. QED BY <1>5, <2>1
<1>8. ASSUME AnswerAfter(es, 0) PROVE AnswerAfter(es, 1) \/ (es[1].kind = "end" /\ Answers(es[1].message))
  <2>1. PICK j \in (0 + 1)..(n + 1) : es[j].kind = "end" /\ Answers(es[j].message)
    BY <1>1, <1>8 DEF AnswerAfter
  <2>2. j = 1 \/ j \in (1 + 1)..(n + 1)
    OBVIOUS
  <2>3. QED BY <1>1, <2>1, <2>2 DEF AnswerAfter
<1>9. 1 \in 1..(n + 1)
  OBVIOUS
<1>10. QED BY <1>1, <1>2, <1>3, <1>5, <1>6, <1>7, <1>8, <1>9

LEMMA AnswerOthers ==
    ASSUME NEW r \in Runs, Others(r), NEW q \in Runs, q # r
    PROVE  /\ UsersOnStream(q) => UsersOnStream(q)'
           /\ AnswerComes(q) => AnswerComes(q)'
BY DEF Others, UsersOnStream, AnswerComes, Owes, Debt

\* A run takes its prompts with more to do: it owes them an answer.
LEMMA AnswerStart ==
    ASSUME TypeOK, LoopInv, AnswerNow, Prompt \/ ContinueQueued \/ ContinueAsIs
    PROVE  AnswerNow'
<1>1. PICK s \in Runs : s = nextRun
  BY StartShape
<1>2. /\ Others(s) /\ messages' = messages
      /\ run'[s].at = "poll" /\ run'[s].hasMore = TRUE /\ run'[s].closed = "open"
  BY <1>1, StartShape
<1>3. ~AnswerComes(s)
  <2>1. s \in Int /\ ~(s < nextRun)
    BY <1>1 DEF Runs
  <2>2. run[s].consumer = "none"
    BY <2>1 DEF LoopInv, Phases
  <2>3. QED BY <2>2 DEF AnswerComes
<1>4. Owes(s)'
  BY <1>2 DEF Owes, Debt
<1>5. \A q \in Runs : UsersOnStream(q)'
  <2>1. UsersOnStream(s)'
    BY <1>4 DEF UsersOnStream
  <2>2. QED BY <1>2, <2>1, AnswerOthers DEF AnswerNow
<1>6. \A q \in Runs : AnswerComes(q) => AnswerComes(q)'
  BY <1>2, <1>3, AnswerOthers
<1>7. \A i : AnsweredLater(i) => AnsweredLater(i)'
  BY <1>2 DEF AnsweredLater
<1>8. QED BY <1>2, <1>5, <1>6, <1>7 DEF AnswerNow

LEMMA AnswerConsume ==
    ASSUME TypeOK, LoopInv, AnswerNow, NEW r \in Runs, Consume(r)
    PROVE  AnswerNow'
<1>1. PICK es \in Seq(EventType) : es = run[r].events
  BY ConvType
<1>2. PICK m : m = es[1].message
  OBVIOUS
<1>3. /\ Others(r) /\ SameLoop(r) /\ es # << >> /\ run'[r].events = Tail(es)
      /\ run[r].consumer = "consuming" /\ run'[r].consumer = "consuming"
      /\ es[1].kind = "start" => run'[r].partial = es[1].message
      /\ es[1].kind = "agentEnd" => run'[r].partial = run[r].partial
      /\ es[1].kind = "end" => messages' = Append(messages, m)
      /\ es[1].kind # "end" => messages' = messages
      /\ es[1] \in EventType
  <2>1. es[1].kind \in {"start", "end", "agentEnd"}
    <3>1. es[1] \in EventType
      BY <1>1, ConsumeShape
    <3>2. QED BY <3>1 DEF EventType
  <2>2. QED BY <1>1, <1>2, <2>1, ConsumeShape
<1>4. Owes(r) => Owes(r)'
  <2>1. LeavesTorn(es, run[r].partial) => LeavesTorn(Tail(es), run'[r].partial)
    BY <1>3, TornTail
  <2>2. QED BY <1>1, <1>3, <2>1 DEF Owes, Debt, SameLoop
<1>5. UsersOnStream(r)'
  <2>1. SUFFICES ASSUME ~Owes(r)', NEW k \in 1..Len(Tail(es)),
                        Tail(es)[k].kind = "end", Tail(es)[k].message.role = "user"
                 PROVE  AnswerAfter(Tail(es), k)
    BY <1>3 DEF UsersOnStream
  <2>2. Tail(es)[k] = es[k + 1] /\ k + 1 \in 1..Len(es)
    BY <1>3, AnswerTail
  <2>3. AnswerAfter(es, k + 1)
    BY <1>1, <1>4, <2>1, <2>2 DEF AnswerNow, UsersOnStream
  <2>4. QED BY <1>3, <2>3, AnswerTail
<1>6. AnswerComes(r) => AnswerComes(r)' \/ (es[1].kind = "end" /\ Answers(m))
  <2>1. AnswerAfter(es, 0) => AnswerAfter(Tail(es), 0) \/ (es[1].kind = "end" /\ Answers(m))
    BY <1>2, <1>3, AnswerTail
  <2>2. QED BY <1>1, <1>3, <1>4, <2>1 DEF AnswerComes
<1>7. es[1].kind = "end" /\ m.role = "user" => AnswerComes(r)'
  <2>1. SUFFICES ASSUME es[1].kind = "end", es[1].message.role = "user" PROVE AnswerComes(r)'
    BY <1>2
  <2>2. 1 \in 1..Len(es) /\ (AnswerAfter(es, 1) => AnswerAfter(Tail(es), 0))
    BY <1>3, AnswerTail
  <2>3. Owes(r) \/ AnswerAfter(es, 1)
    BY <1>1, <2>1, <2>2 DEF AnswerNow, UsersOnStream
  <2>4. QED BY <1>3, <1>4, <2>2, <2>3 DEF AnswerComes
<1>8. \A q \in Runs : UsersOnStream(q)' /\ (q # r /\ AnswerComes(q) => AnswerComes(q)')
  BY <1>3, <1>5, AnswerOthers DEF AnswerNow
<1>9. CASE es[1].kind # "end"
  <2>1. \A i : AnsweredLater(i) => AnsweredLater(i)'
    BY <1>3, <1>9 DEF AnsweredLater
  <2>2. \A q \in Runs : AnswerComes(q) => AnswerComes(q)'
    BY <1>6, <1>8, <1>9
  <2>3. QED BY <1>3, <1>8, <1>9, <2>1, <2>2 DEF AnswerNow
<1>10. CASE es[1].kind = "end"
  <2>1. messages \in Seq(MessageType) /\ m \in MessageType
    BY <1>2, <1>3, EventFields DEF TypeOK
  <2>2. PICK l : l = <<m>>
    OBVIOUS
  <2>3. l \in Seq(MessageType) /\ Len(l) = 1 /\ l[1] = m
    BY <2>1, <2>2
  <2>4. messages' = messages \o l
    BY <1>3, <1>10, <2>1, <2>2, AppendIsConcat
  <2>5. PICK n \in Nat : n = Len(messages)
    BY <2>1
  <2>6. /\ Len(messages') = n + 1
        /\ \A i \in 1..n : messages'[i] = messages[i] /\ (AnsweredLater(i) => AnsweredLater(i)')
    BY <2>1, <2>3, <2>4, <2>5, LaterKept
  <2>7. messages'[n + 1] = m
    <3>1. 1 \in 1..Len(l)
      BY <2>3
    <3>2. QED BY <2>1, <2>3, <2>4, <2>5, <3>1, LaterKept
  <2>8. ASSUME NEW i \in 1..n, messages'[i].role = "user"
        PROVE  AnsweredLater(i)' \/ \E q \in Runs : AnswerComes(q)'
    <3>1. messages[i].role = "user"
      BY <2>6, <2>8
    <3>2. CASE AnsweredLater(i)
      BY <2>6, <3>2
    <3>3. ASSUME NEW q \in Runs, AnswerComes(q), q # r PROVE AnswerComes(q)'
      BY <1>8, <3>3
    <3>4. CASE Answers(m)
      <4>1. n + 1 \in (i + 1)..(n + 1)
        OBVIOUS
      <4>2. AnsweredLater(i)'
        BY <2>6, <2>7, <3>4, <4>1 DEF AnsweredLater
      <4>3. QED BY <4>2
    <3>5. CASE AnswerComes(r) /\ ~Answers(m)
      BY <1>6, <3>5
    <3>6. AnsweredLater(i) \/ \E q \in Runs : AnswerComes(q)
      BY <2>5, <3>1 DEF AnswerNow
    <3>7. QED BY <3>2, <3>3, <3>4, <3>5, <3>6
  <2>9. ASSUME messages'[n + 1].role = "user" PROVE \E q \in Runs : AnswerComes(q)'
    BY <1>7, <1>10, <2>7, <2>9
  <2>10. \A i \in 1..(n + 1) : i \in 1..n \/ i = n + 1
    OBVIOUS
  <2>11. \A i \in 1..Len(messages') : messages'[i].role = "user" =>
            AnsweredLater(i)' \/ \E q \in Runs : AnswerComes(q)'
    BY <2>6, <2>8, <2>9, <2>10
  <2>12. QED BY <1>8, <2>11 DEF AnswerNow
<1>11. QED BY <1>9, <1>10

\* A run that fails answers with its error; one that leaves a torn-off
\* response behind is no longer in the property's scope.
LEMMA AnswerSettle ==
    ASSUME TypeOK, LoopInv, AnswerNow, NoPartialCommitted', NEW r \in Runs, Settle(r)
    PROVE  AnswerNow'
<1>1. PICK l \in Seq(MessageType) : l = Leftover(r)
  BY SettleShape
<1>2. /\ Others(r) /\ messages' = messages \o l /\ messages \in Seq(MessageType)
      /\ run[r].events = << >> /\ run'[r].events = << >> /\ run[r].closed # "open"
  BY <1>1, SettleShape DEF TypeOK
<1>3. UsersOnStream(r)'
  BY <1>2 DEF UsersOnStream
<1>4. \A q \in Runs : UsersOnStream(q)' /\ (q # r /\ AnswerComes(q) => AnswerComes(q)')
  BY <1>2, <1>3, AnswerOthers DEF AnswerNow
<1>5. PICK n \in Nat : n = Len(messages)
  BY <1>2
<1>6. PICK b \in Nat : b = Len(l)
  OBVIOUS
<1>7. /\ Len(messages') = n + b
      /\ \A i \in 1..n : messages'[i] = messages[i] /\ (AnsweredLater(i) => AnsweredLater(i)')
      /\ \A i \in 1..b : messages'[n + i] = l[i]
  BY <1>2, <1>5, <1>6, LaterKept
<1>8. ASSUME AnswerComes(r) PROVE b = 1 /\ Answers(l[1])
  <2>1. CASE run[r].closed = "failed"
    <3>1. PICK m : m = Assistant(0, 0, "error")
      OBVIOUS
    <3>2. l = <<m>>
      BY <1>1, <2>1, <3>1 DEF Leftover
    <3>3. Answers(m)
      BY <3>1, AnswerFields
    <3>4. QED BY <1>6, <3>2, <3>3
  <2>2. CASE run[r].closed # "failed"
    <3>1. ~AnswerAfter(run[r].events, 0) /\ ~Debt(r)
      BY <1>2 DEF AnswerAfter, Debt
    <3>2. LeavesTorn(<< >>, run[r].partial)
      BY <1>2, <1>8, <2>2, <3>1 DEF AnswerComes, Owes
    <3>3. TornOff(run[r].partial)
      BY <3>2 DEF LeavesTorn
    <3>4. PICK p : p = run[r].partial
      OBVIOUS
    <3>5. l = <<p>> /\ p.role = "assistant" /\ p.stop = "partial"
      BY <1>1, <2>2, <3>3, <3>4 DEF Leftover, TornOff
    <3>6. b = 1 /\ messages'[n + 1] = p
      <4>1. b = 1 /\ l[1] = p
        BY <1>6, <3>5
      <4>2. QED BY <1>7, <4>1
    <3>7. n + 1 \in 1..(n + 1)
      OBVIOUS
    <3>8. n + 1 \in DOMAIN messages'
      <4>1. messages' \in Seq(MessageType)
        BY SettleShape
      <4>2. QED BY <1>7, <3>6, <3>7, <4>1
    <3>9. FALSE
      BY <3>5, <3>6, <3>8 DEF NoPartialCommitted
    <3>10. QED BY <3>9
  <2>3. QED BY <2>1, <2>2
<1>9. ASSUME NEW i \in 1..n, messages'[i].role = "user"
      PROVE  AnsweredLater(i)' \/ \E q \in Runs : AnswerComes(q)'
  <2>1. AnsweredLater(i) \/ \E q \in Runs : AnswerComes(q)
    BY <1>5, <1>7, <1>9 DEF AnswerNow
  <2>2. CASE AnswerComes(r)
    <3>1. b = 1 /\ 1 \in 1..b
      BY <1>8, <2>2
    <3>2. messages'[n + 1] = l[1] /\ Len(messages') = n + 1
      BY <1>7, <3>1
    <3>3. n + 1 \in (i + 1)..(n + 1)
      OBVIOUS
    <3>4. AnsweredLater(i)'
      BY <1>8, <2>2, <3>2, <3>3 DEF AnsweredLater
    <3>5. QED BY <3>4
  <2>3. CASE ~AnswerComes(r)
    BY <1>4, <1>7, <2>1, <2>3
  <2>4. QED BY <2>2, <2>3
<1>10. ASSUME NEW i \in 1..b PROVE messages'[n + i].role # "user"
  <2>1. l = << >> \/ \E p : l = <<p>> /\ p.role = "assistant"
    BY <1>1 DEF Leftover, Assistant
  <2>2. i = 1 /\ l[1].role = "assistant"
    BY <1>6, <2>1
  <2>3. QED BY <1>7, <2>2
<1>11. \A i \in 1..(n + b) : i \in 1..n \/ (i - n \in 1..b /\ i = n + (i - n))
  OBVIOUS
<1>12. \A i \in 1..Len(messages') : messages'[i].role = "user" =>
          AnsweredLater(i)' \/ \E q \in Runs : AnswerComes(q)'
  BY <1>7, <1>9, <1>10, <1>11
<1>13. QED BY <1>4, <1>12 DEF AnswerNow

LEMMA AnswerInvStep ==
    ASSUME TypeOK, LoopInv, StreamInv, AnswerInv, [Next]_vars
    PROVE  AnswerInv'
<1>1. SUFFICES ASSUME NoPartialCommitted' PROVE AnswerNow'
  BY DEF AnswerInv
<1>2. AnswerNow
  BY <1>1, NoPartialBefore DEF AnswerInv
<1>3. CASE Prompt \/ ContinueQueued \/ ContinueAsIs
  BY <1>2, <1>3, AnswerStart
<1>4. ASSUME NEW s \in Runs, LoopStep(s) PROVE AnswerNow'
  <2>1. Others(s) /\ messages' = messages
    BY <1>4, PhaseStep, LoopStepUnchanged
  <2>2. UsersOnStream(s)' /\ (AnswerComes(s) => AnswerComes(s)')
    BY <1>2, <1>4, AnswerStep DEF AnswerNow
  <2>3. \A q \in Runs : UsersOnStream(q)' /\ (AnswerComes(q) => AnswerComes(q)')
    BY <1>2, <2>1, <2>2, AnswerOthers DEF AnswerNow
  <2>4. \A i : AnsweredLater(i) => AnsweredLater(i)'
    BY <2>1 DEF AnsweredLater
  <2>5. QED BY <1>2, <2>1, <2>3, <2>4 DEF AnswerNow
<1>5. ASSUME NEW s \in Runs, Consume(s) PROVE AnswerNow'
  BY <1>2, <1>5, AnswerConsume
<1>6. ASSUME NEW s \in Runs, Settle(s) PROVE AnswerNow'
  BY <1>1, <1>2, <1>6, AnswerSettle
<1>7. ASSUME run' = run, messages' = messages PROVE AnswerNow'
  BY <1>2, <1>7 DEF AnswerNow, UsersOnStream, AnswerComes, AnsweredLater, Owes, Debt
<1>8. CASE Steer \/ FollowUp \/ PopLastSteer \/ PopLastFollowUp \/ ClearAllQueues \/ Abort
  <2>1. run' = run /\ messages' = messages
    BY <1>8 DEF Steer, FollowUp, PopLastSteer, PopLastFollowUp, ClearAllQueues, Abort, userUnchanged
  <2>2. QED BY <1>7, <2>1
<1>9. CASE UNCHANGED vars
  BY <1>7, <1>9
<1>10. QED BY <1>3, <1>4, <1>5, <1>6, <1>8, <1>9 DEF Next, Idle

\* Between runs every message the agent took has an answer behind it, unless
\* a torn-off response was committed.
THEOREM EveryPromptAnsweredCorrect == Spec => []EveryPromptAnswered
<1>1. Init => StreamInv /\ AnswerInv
  <2>1. SUFFICES ASSUME Init PROVE StreamInv /\ AnswerInv
    OBVIOUS
  <2>2. messages = << >> /\ \A r \in Runs : run[r].events = << >> /\ run[r].at = "idle"
    BY <2>1 DEF Init, FreshRun
  <2>3. StreamInv
    BY <2>2 DEF StreamInv
  <2>4. AnswerInv
    BY <2>2 DEF AnswerInv, AnswerNow, UsersOnStream
  <2>5. QED BY <2>3, <2>4
<1>2. TypeOK /\ LoopInv /\ StreamInv /\ AnswerInv /\ [Next]_vars => StreamInv' /\ AnswerInv'
  BY StreamInvStep, AnswerInvStep
<1>3. TypeOK /\ LoopInv /\ AnswerInv => EveryPromptAnswered
  <2>1. SUFFICES ASSUME TypeOK, LoopInv, AnswerInv, NoPartialCommitted, AllFinished,
                        NEW i \in DOMAIN messages, messages[i].role = "user"
                 PROVE  AnsweredLater(i)
    BY DEF EveryPromptAnswered, AnsweredLater, Answers
  <2>2. i \in 1..Len(messages)
    <3>1. messages \in Seq(MessageType)
      BY <2>1 DEF TypeOK
    <3>2. QED BY <3>1
  <2>3. \A r \in Runs : ~AnswerComes(r)
    BY <2>1 DEF AllFinished, AnswerComes
  <2>4. QED BY <2>1, <2>2, <2>3 DEF AnswerInv, AnswerNow
<1> HIDE DEF vars, queues, agentVars, counters
<1>4. QED BY <1>1, <1>2, <1>3, TypeAndLoop, PTL DEF Spec
-----------------------------------------------------------------------------
(***************************************************************************)
(* Conservation: a message of the user is in one place at a time.  A step  *)
(* moves it from one place to the next (SomeMove), lets a new one in       *)
(* (OneArrives), lets the caller take some back (SomeLeave) or leaves all  *)
(* where they are (NothingMoves).                                          *)
(***************************************************************************)
\* Message m is the i-th in place p.
UserAt(held, p, i, m) ==
    p \in DOMAIN held /\ i \in UsersIn(held[p]) /\ m = held[p][i].id
Somewhere(held, m) == \E p, i : UserAt(held, p, i, m)

LEMMA SpotsAre ==
    ASSUME NEW held
    PROVE  \A s : s \in Spots(held) <=> \E p, i, m : s = <<p, i, m>> /\ UserAt(held, p, i, m)
<1>1. ASSUME NEW s \in Spots(held) PROVE \E p, i, m : s = <<p, i, m>> /\ UserAt(held, p, i, m)
  <2>1. PICK p \in DOMAIN held : s \in {<<p, i, held[p][i].id>> : i \in UsersIn(held[p])}
    BY DEF Spots
  <2>2. PICK i \in UsersIn(held[p]) : s = <<p, i, held[p][i].id>>
    BY <2>1
  <2>3. UserAt(held, p, i, held[p][i].id)
    BY <2>2 DEF UserAt
  <2>4. QED BY <2>2, <2>3
<1>2. ASSUME NEW p, NEW i, NEW m, UserAt(held, p, i, m) PROVE <<p, i, m>> \in Spots(held)
  <2>1. <<p, i, m>> \in {<<p, j, held[p][j].id>> : j \in UsersIn(held[p])}
    BY <1>2 DEF UserAt
  <2>2. p \in DOMAIN held
    BY <1>2 DEF UserAt
  <2>3. QED BY <2>1, <2>2 DEF Spots
<1>3. QED BY <1>1, <1>2

LEMMA ConservedIs ==
    ASSUME NEW held, NEW ids
    PROVE  Conserved(held, ids) <=>
             /\ \A m \in ids : Somewhere(held, m)
             /\ \A p, i, m : UserAt(held, p, i, m) => m \in ids
             /\ \A p, q, i, j, m : UserAt(held, p, i, m) /\ UserAt(held, q, j, m) => p = q /\ i = j
<1>1. PICK spots : spots = Spots(held)
  OBVIOUS
<1>2. \A s : s \in spots <=> \E p, i, m : s = <<p, i, m>> /\ UserAt(held, p, i, m)
  BY <1>1, SpotsAre
<1>3. \A p, i, m : UserAt(held, p, i, m) => <<p, i, m>> \in spots /\ <<p, i, m>>[3] = m
  BY <1>2
<1>4. \A s \in spots : \E p, i, m : s = <<p, i, m>> /\ UserAt(held, p, i, m) /\ s[3] = m
  BY <1>2
<1>5. Conserved(held, ids) <=> /\ {s[3] : s \in spots} = ids
                               /\ \A s, t \in spots : s[3] = t[3] => s = t
  BY <1>1 DEF Conserved
<1>6. {s[3] : s \in spots} = ids <=>
         (\A m \in ids : Somewhere(held, m)) /\ (\A p, i, m : UserAt(held, p, i, m) => m \in ids)
  <2>1. \A m : m \in {s[3] : s \in spots} <=> Somewhere(held, m)
    BY <1>3, <1>4 DEF Somewhere
  <2>2. QED BY <2>1 DEF Somewhere
<1>7. (\A s, t \in spots : s[3] = t[3] => s = t) <=>
         \A p, q, i, j, m : UserAt(held, p, i, m) /\ UserAt(held, q, j, m) => p = q /\ i = j
  <2>1. ASSUME \A s, t \in spots : s[3] = t[3] => s = t,
               NEW p, NEW q, NEW i, NEW j, NEW m, UserAt(held, p, i, m), UserAt(held, q, j, m)
        PROVE  p = q /\ i = j
    <3>1. <<p, i, m>> = <<q, j, m>>
      <4>1. <<p, i, m>> \in spots /\ <<p, i, m>>[3] = m
        BY <1>3, <2>1
      <4>2. <<q, j, m>> \in spots /\ <<q, j, m>>[3] = m
        BY <1>3, <2>1
      <4>3. QED BY <2>1, <4>1, <4>2
    <3>2. QED BY <3>1
  <2>2. ASSUME \A p, q, i, j, m : UserAt(held, p, i, m) /\ UserAt(held, q, j, m) => p = q /\ i = j,
               NEW s \in spots, NEW t \in spots, s[3] = t[3]
        PROVE  s = t
    <3>1. PICK p, i, m : s = <<p, i, m>> /\ UserAt(held, p, i, m) /\ s[3] = m
      BY <1>4
    <3>2. PICK q, j, n : t = <<q, j, n>> /\ UserAt(held, q, j, n) /\ t[3] = n
      BY <1>4
    <3>3. m = n
      BY <2>2, <3>1, <3>2
    <3>4. QED BY <2>2, <3>1, <3>2, <3>3
  <2>3. QED BY <2>1, <2>2
<1>8. QED BY <1>5, <1>6, <1>7

\* Who has which messages after a step that moves none.
Unmoved(C, D, p) == \A i, m : UserAt(D, p, i, m) <=> UserAt(C, p, i, m)

LEMMA NothingMoves ==
    ASSUME NEW C, NEW D, NEW ids, Conserved(C, ids), \A p : Unmoved(C, D, p)
    PROVE  Conserved(D, ids)
<1>1. \A p, i, m : UserAt(D, p, i, m) <=> UserAt(C, p, i, m)
  BY DEF Unmoved
<1>2. \A m : Somewhere(D, m) <=> Somewhere(C, m)
  BY <1>1 DEF Somewhere
<1>3. /\ \A m \in ids : Somewhere(C, m)
      /\ \A p, i, m : UserAt(C, p, i, m) => m \in ids
      /\ \A p, q, i, j, m : UserAt(C, p, i, m) /\ UserAt(C, q, j, m) => p = q /\ i = j
  BY ConservedIs
<1>4. /\ \A m \in ids : Somewhere(D, m)
      /\ \A p, i, m : UserAt(D, p, i, m) => m \in ids
      /\ \A p, q, i, j, m : UserAt(D, p, i, m) /\ UserAt(D, q, j, m) => p = q /\ i = j
  BY <1>1, <1>2, <1>3
<1>5. QED BY <1>4, ConservedIs

\* Place a loses its first k messages.
FrontGone(C, D, a, k) == \A i, m : UserAt(D, a, i, m) <=> i \in Nat /\ i >= 1 /\ UserAt(C, a, i + k, m)
\* The first k of place a come to stand behind the n of place b.
ArrivesBehind(C, D, a, k, b, n) ==
    /\ \A i, m : UserAt(C, b, i, m) => i \in 1..n
    /\ \A i, m : UserAt(D, b, i, m) <=>
          \/ UserAt(C, b, i, m)
          \/ i \in (n + 1)..(n + k) /\ UserAt(C, a, i - n, m)

\* The first messages of one place go to the end of another.
LEMMA SomeMove ==
    ASSUME NEW C, NEW D, NEW ids, Conserved(C, ids), NEW a, NEW b, a # b, NEW k \in Nat, NEW n \in Nat,
           \A i, m : UserAt(C, a, i, m) => i \in Nat /\ i >= 1,
           FrontGone(C, D, a, k), ArrivesBehind(C, D, a, k, b, n),
           \A p : p # a /\ p # b => Unmoved(C, D, p)
    PROVE  Conserved(D, ids)
<1>1. /\ \A m \in ids : Somewhere(C, m)
      /\ \A p, i, m : UserAt(C, p, i, m) => m \in ids
      /\ \A p, q, i, j, m : UserAt(C, p, i, m) /\ UserAt(C, q, j, m) => p = q /\ i = j
  BY ConservedIs
<1>2. ASSUME NEW p, NEW i, NEW m, UserAt(D, p, i, m)
      PROVE  \/ p # a /\ UserAt(C, p, i, m) /\ (p = b => i \in 1..n)
             \/ p = a /\ i \in Nat /\ i >= 1 /\ UserAt(C, a, i + k, m)
             \/ p = b /\ i \in (n + 1)..(n + k) /\ UserAt(C, a, i - n, m)
  BY <1>2 DEF Unmoved, FrontGone, ArrivesBehind
<1>3. ASSUME NEW m \in ids PROVE Somewhere(D, m)
  <2>1. PICK p, i : UserAt(C, p, i, m)
    BY <1>1 DEF Somewhere
  <2>2. CASE p # a
    <3>1. UserAt(D, p, i, m)
      BY <2>1, <2>2 DEF Unmoved, ArrivesBehind
    <3>2. QED BY <3>1 DEF Somewhere
  <2>3. CASE p = a /\ i <= k
    <3>1. i \in Nat /\ i >= 1
      BY <2>1, <2>3
    <3>2. n + i \in (n + 1)..(n + k) /\ (n + i) - n = i
      BY <2>3, <3>1
    <3>3. UserAt(D, b, n + i, m)
      BY <2>1, <2>3, <3>2 DEF ArrivesBehind
    <3>4. QED BY <3>3 DEF Somewhere
  <2>4. CASE p = a /\ ~(i <= k)
    <3>1. i \in Nat /\ i >= 1
      BY <2>1, <2>4
    <3>2. i - k \in Nat /\ i - k >= 1 /\ (i - k) + k = i
      BY <2>4, <3>1
    <3>3. UserAt(D, a, i - k, m)
      BY <2>1, <2>4, <3>2 DEF FrontGone
    <3>4. QED BY <3>3 DEF Somewhere
  <2>5. QED BY <2>2, <2>3, <2>4
<1>4. \A p, i, m : UserAt(D, p, i, m) => m \in ids
  BY <1>1, <1>2
<1>5. ASSUME NEW p, NEW q, NEW i, NEW j, NEW m, UserAt(D, p, i, m), UserAt(D, q, j, m)
      PROVE  p = q /\ i = j
  <2>1. \/ p # a /\ UserAt(C, p, i, m) /\ (p = b => i \in 1..n)
        \/ p = a /\ i \in Nat /\ i >= 1 /\ UserAt(C, a, i + k, m)
        \/ p = b /\ i \in (n + 1)..(n + k) /\ UserAt(C, a, i - n, m)
    BY <1>2, <1>5
  <2>2. \/ q # a /\ UserAt(C, q, j, m) /\ (q = b => j \in 1..n)
        \/ q = a /\ j \in Nat /\ j >= 1 /\ UserAt(C, a, j + k, m)
        \/ q = b /\ j \in (n + 1)..(n + k) /\ UserAt(C, a, j - n, m)
    BY <1>2, <1>5
  <2>3. CASE p # a /\ UserAt(C, p, i, m)
    BY <1>1, <2>2, <2>3
  <2>4. CASE p = a /\ i \in Nat /\ i >= 1 /\ UserAt(C, a, i + k, m)
    <3>1. CASE q # a /\ UserAt(C, q, j, m)
      BY <1>1, <2>4, <3>1
    <3>2. CASE q = a /\ j \in Nat /\ j >= 1 /\ UserAt(C, a, j + k, m)
      <4>1. i + k = j + k
        BY <1>1, <2>4, <3>2
      <4>2. QED BY <2>4, <3>2, <4>1
    <3>3. CASE q = b /\ j \in (n + 1)..(n + k) /\ UserAt(C, a, j - n, m)
      <4>1. i + k = j - n
        BY <1>1, <2>4, <3>3
      <4>2. QED BY <2>4, <3>3, <4>1
    <3>4. QED BY <2>2, <3>1, <3>2, <3>3
  <2>5. CASE p = b /\ i \in (n + 1)..(n + k) /\ UserAt(C, a, i - n, m)
    <3>1. CASE q # a /\ UserAt(C, q, j, m)
      BY <1>1, <2>5, <3>1
    <3>2. CASE q = a /\ j \in Nat /\ j >= 1 /\ UserAt(C, a, j + k, m)
      <4>1. i - n = j + k
        BY <1>1, <2>5, <3>2
      <4>2. QED BY <2>5, <3>2, <4>1
    <3>3. CASE q = b /\ j \in (n + 1)..(n + k) /\ UserAt(C, a, j - n, m)
      <4>1. i - n = j - n
        BY <1>1, <2>5, <3>3
      <4>2. QED BY <2>5, <3>3, <4>1
    <3>4. QED BY <2>2, <3>1, <3>2, <3>3
  <2>6. QED BY <2>1, <2>3, <2>4, <2>5
<1>6. QED BY <1>3, <1>4, <1>5, ConservedIs

\* A new message x becomes the n-th of place b.
Joins(C, D, b, n, x) ==
    \A i, m : UserAt(D, b, i, m) <=> UserAt(C, b, i, m) \/ (i = n /\ m = x)

LEMMA OneArrives ==
    ASSUME NEW C, NEW D, NEW ids, Conserved(C, ids), NEW x, x \notin ids, NEW b, NEW n,
           Joins(C, D, b, n, x), \A p : p # b => Unmoved(C, D, p)
    PROVE  Conserved(D, ids \cup {x})
<1>1. /\ \A m \in ids : Somewhere(C, m)
      /\ \A p, i, m : UserAt(C, p, i, m) => m \in ids
      /\ \A p, q, i, j, m : UserAt(C, p, i, m) /\ UserAt(C, q, j, m) => p = q /\ i = j
  BY ConservedIs
<1>2. \A p, i, m : UserAt(D, p, i, m) <=> UserAt(C, p, i, m) \/ (p = b /\ i = n /\ m = x)
  BY DEF Unmoved, Joins
<1>3. \A m \in ids \cup {x} : Somewhere(D, m)
  BY <1>1, <1>2 DEF Somewhere
<1>4. \A p, i, m : UserAt(D, p, i, m) => m \in ids \cup {x}
  BY <1>1, <1>2
<1>5. \A p, q, i, j, m : UserAt(D, p, i, m) /\ UserAt(D, q, j, m) => p = q /\ i = j
  BY <1>1, <1>2
<1>6. QED BY <1>3, <1>4, <1>5, ConservedIs

\* Messages gone are taken out of a place; the others stay.
LEMMA SomeLeave ==
    ASSUME NEW C, NEW D, NEW ids, Conserved(C, ids), NEW gone,
           \A p, i, m : UserAt(D, p, i, m) <=> UserAt(C, p, i, m) /\ m \notin gone
    PROVE  Conserved(D, ids \ gone)
<1>1. /\ \A m \in ids : Somewhere(C, m)
      /\ \A p, i, m : UserAt(C, p, i, m) => m \in ids
      /\ \A p, q, i, j, m : UserAt(C, p, i, m) /\ UserAt(C, q, j, m) => p = q /\ i = j
  BY ConservedIs
<1>2. \A m \in ids \ gone : Somewhere(D, m)
  BY <1>1 DEF Somewhere
<1>3. \A p, i, m : UserAt(D, p, i, m) => m \in ids \ gone
  BY <1>1
<1>4. \A p, q, i, j, m : UserAt(D, p, i, m) /\ UserAt(D, q, j, m) => p = q /\ i = j
  BY <1>1
<1>5. QED BY <1>2, <1>3, <1>4, ConservedIs

\* The places of this agent.
HeldBy(rn, ms, sq, fq) == [p \in Places |->
    CASE p[1] = "steering" -> Users(sq)
      [] p[1] = "followUp" -> Users(fq)
      [] p[1] = "transcript" -> ms
      [] p[1] = "pending" -> Users(rn[p[2]].pending)
      [] p[1] = "found" -> Users(rn[p[2]].steering)
      [] p[1] = "stream" -> EventMessages(rn[p[2]].events)]
SteeringPlace == <<"steering", None>>
FollowUpPlace == <<"followUp", None>>
Transcript == <<"transcript", None>>
Pending(r) == <<"pending", r>>
Found(r) == <<"found", r>>
Stream(r) == <<"stream", r>>
NumberAt(q, i, m) == i \in DOMAIN q /\ m = q[i]
UserEnds(es, i, m) == i \in DOMAIN es /\ es[i].message.role = "user" /\ m = es[i].message.id

LEMMA PlacesAre ==
    \A p \in Places : \/ p \in {SteeringPlace, FollowUpPlace, Transcript}
                      \/ \E r \in Runs : p \in {Pending(r), Found(r), Stream(r)}
<1>1. ASSUME NEW p \in {"steering", "followUp", "transcript"} \X {None}
      PROVE  p \in {SteeringPlace, FollowUpPlace, Transcript}
  BY <1>1 DEF SteeringPlace, FollowUpPlace, Transcript
<1>2. ASSUME NEW p \in {"pending", "found", "stream"} \X Runs
      PROVE  \E r \in Runs : p \in {Pending(r), Found(r), Stream(r)}
  BY <1>2 DEF Pending, Found, Stream
<1>3. QED BY <1>1, <1>2 DEF Places

LEMMA UsersHeld ==
    ASSUME NEW held, NEW p \in DOMAIN held, NEW q, held[p] = Users(q)
    PROVE  \A i, m : UserAt(held, p, i, m) <=> NumberAt(q, i, m)
<1>1. DOMAIN Users(q) = DOMAIN q /\ \A i \in DOMAIN q : Users(q)[i].role = "user" /\ Users(q)[i].id = q[i]
  BY DEF Users, User
<1>2. QED BY <1>1 DEF UserAt, UsersIn, NumberAt

LEMMA StreamHeld ==
    ASSUME NEW held, NEW p \in DOMAIN held, NEW es, held[p] = EventMessages(es)
    PROVE  \A i, m : UserAt(held, p, i, m) <=> UserEnds(es, i, m)
<1>1. DOMAIN EventMessages(es) = DOMAIN es /\ \A i \in DOMAIN es : EventMessages(es)[i] = es[i].message
  BY DEF EventMessages
<1>2. QED BY <1>1 DEF UserAt, UsersIn, UserEnds

HoldsAsSaid(held, rn, ms, sq, fq) ==
    /\ DOMAIN held = Places
    /\ \A i, m : UserAt(held, SteeringPlace, i, m) <=> NumberAt(sq, i, m)
    /\ \A i, m : UserAt(held, FollowUpPlace, i, m) <=> NumberAt(fq, i, m)
    /\ \A i, m : UserAt(held, Transcript, i, m) <=> i \in UsersIn(ms) /\ m = ms[i].id
    /\ \A r \in Runs : \A i, m :
          /\ UserAt(held, Pending(r), i, m) <=> NumberAt(rn[r].pending, i, m)
          /\ UserAt(held, Found(r), i, m) <=> NumberAt(rn[r].steering, i, m)
          /\ UserAt(held, Stream(r), i, m) <=> UserEnds(rn[r].events, i, m)

LEMMA HeldByPlaces ==
    ASSUME NEW rn, NEW ms, NEW sq, NEW fq, NEW held, held = HeldBy(rn, ms, sq, fq)
    PROVE  HoldsAsSaid(held, rn, ms, sq, fq)
<1>1. DOMAIN held = Places
  BY DEF HeldBy
<1>2. SteeringPlace \in Places /\ FollowUpPlace \in Places /\ Transcript \in Places
  BY DEF SteeringPlace, FollowUpPlace, Transcript, Places
<1>3. held[SteeringPlace] = Users(sq) /\ held[FollowUpPlace] = Users(fq) /\ held[Transcript] = ms
  BY <1>2 DEF HeldBy, SteeringPlace, FollowUpPlace, Transcript
<1>4. \A i, m : UserAt(held, SteeringPlace, i, m) <=> NumberAt(sq, i, m)
  BY <1>1, <1>2, <1>3, UsersHeld
<1>5. \A i, m : UserAt(held, FollowUpPlace, i, m) <=> NumberAt(fq, i, m)
  BY <1>1, <1>2, <1>3, UsersHeld
<1>6. \A i, m : UserAt(held, Transcript, i, m) <=> i \in UsersIn(ms) /\ m = ms[i].id
  BY <1>1, <1>2, <1>3 DEF UserAt
<1>7. ASSUME NEW r \in Runs
      PROVE  \A i, m : /\ UserAt(held, Pending(r), i, m) <=> NumberAt(rn[r].pending, i, m)
                       /\ UserAt(held, Found(r), i, m) <=> NumberAt(rn[r].steering, i, m)
                       /\ UserAt(held, Stream(r), i, m) <=> UserEnds(rn[r].events, i, m)
  <2>1. Pending(r) \in Places /\ Found(r) \in Places /\ Stream(r) \in Places
    BY DEF Pending, Found, Stream, Places
  <2>2. /\ held[Pending(r)] = Users(rn[r].pending) /\ held[Found(r)] = Users(rn[r].steering)
        /\ held[Stream(r)] = EventMessages(rn[r].events)
    BY <2>1 DEF HeldBy, Pending, Found, Stream
  <2>3. \A i, m : UserAt(held, Pending(r), i, m) <=> NumberAt(rn[r].pending, i, m)
    BY <1>1, <2>1, <2>2, UsersHeld
  <2>4. \A i, m : UserAt(held, Found(r), i, m) <=> NumberAt(rn[r].steering, i, m)
    BY <1>1, <2>1, <2>2, UsersHeld
  <2>5. \A i, m : UserAt(held, Stream(r), i, m) <=> UserEnds(rn[r].events, i, m)
    BY <1>1, <2>1, <2>2, StreamHeld
  <2>6. QED BY <2>3, <2>4, <2>5
<1>8. QED BY <1>1, <1>4, <1>5, <1>6, <1>7 DEF HoldsAsSaid

LEMMA HeldPlaces ==
    /\ HoldsAsSaid(Held, run, messages, steeringQueue, followUpQueue)
    /\ HoldsAsSaid(Held', run', messages', steeringQueue', followUpQueue')
<1>1. Held = HeldBy(run, messages, steeringQueue, followUpQueue)
  BY DEF Held, HeldBy
<1>2. Held' = HeldBy(run', messages', steeringQueue', followUpQueue')
  BY DEF Held, HeldBy
<1>3. QED BY <1>1, <1>2, HeldByPlaces

\* What is left alone keeps its messages.
LEMMA LeftAlone ==
    /\ steeringQueue' = steeringQueue => Unmoved(Held, Held', SteeringPlace)
    /\ followUpQueue' = followUpQueue => Unmoved(Held, Held', FollowUpPlace)
    /\ messages' = messages => Unmoved(Held, Held', Transcript)
    /\ \A r \in Runs : run'[r].pending = run[r].pending => Unmoved(Held, Held', Pending(r))
    /\ \A r \in Runs : run'[r].steering = run[r].steering => Unmoved(Held, Held', Found(r))
    /\ \A r \in Runs : run'[r].events = run[r].events => Unmoved(Held, Held', Stream(r))
    /\ \A p : p \notin Places => Unmoved(Held, Held', p)
<1>1. PICK h : h = Held
  OBVIOUS
<1>2. PICK g : g = Held'
  OBVIOUS
<1>3. HoldsAsSaid(h, run, messages, steeringQueue, followUpQueue)
  BY <1>1, HeldPlaces
<1>4. HoldsAsSaid(g, run', messages', steeringQueue', followUpQueue')
  BY <1>2, HeldPlaces
<1>5. \A p : p \notin Places => \A i, m : ~UserAt(h, p, i, m) /\ ~UserAt(g, p, i, m)
  BY <1>3, <1>4 DEF HoldsAsSaid, UserAt
<1>6. steeringQueue' = steeringQueue => Unmoved(h, g, SteeringPlace)
  BY <1>3, <1>4 DEF HoldsAsSaid, Unmoved
<1>7. followUpQueue' = followUpQueue => Unmoved(h, g, FollowUpPlace)
  BY <1>3, <1>4 DEF HoldsAsSaid, Unmoved
<1>8. messages' = messages => Unmoved(h, g, Transcript)
  BY <1>3, <1>4 DEF HoldsAsSaid, Unmoved
<1>9. ASSUME NEW r \in Runs
      PROVE  /\ run'[r].pending = run[r].pending => Unmoved(h, g, Pending(r))
             /\ run'[r].steering = run[r].steering => Unmoved(h, g, Found(r))
             /\ run'[r].events = run[r].events => Unmoved(h, g, Stream(r))
  BY <1>3, <1>4 DEF HoldsAsSaid, Unmoved
<1>10. \A p : p \notin Places => Unmoved(h, g, p)
  BY <1>5 DEF Unmoved
<1>11. QED BY <1>1, <1>2, <1>6, <1>7, <1>8, <1>9, <1>10

-----------------------------------------------------------------------------
\* The parts of a queue.
LEMMA QueueParts ==
    ASSUME NEW S, NEW x \in Seq(S), NEW y \in Seq(S)
    PROVE  /\ \A i, m : NumberAt(x \o y, i, m) => i \in Nat /\ i >= 1
           /\ \A i, m : NumberAt(y, i, m) <=> i \in Nat /\ i >= 1 /\ NumberAt(x \o y, i + Len(x), m)
           /\ \A i, m : i \in 1..Len(x) => (NumberAt(x \o y, i, m) <=> NumberAt(x, i, m))
<1>0. PICK q : q = x \o y
  OBVIOUS
<1>1. PICK k \in Nat : k = Len(x)
  OBVIOUS
<1>2. PICK n \in Nat : n = Len(y)
  OBVIOUS
<1>3. DOMAIN x = 1..k /\ DOMAIN y = 1..n
  BY <1>1, <1>2
<1>4. /\ DOMAIN q = 1..(k + n)
      /\ \A i \in 1..k : q[i] = x[i]
      /\ \A i \in 1..n : q[k + i] = y[i]
  BY <1>0, <1>1, <1>2, ConcatShape
<1>5. \A i \in 1..n : i \in Nat /\ i >= 1 /\ i + k \in 1..(k + n) /\ i + k = k + i
  BY <1>1
<1>6. \A i \in Nat : i >= 1 /\ i + k \in 1..(k + n) => i \in 1..n /\ i + k = k + i
  BY <1>1
<1>7. \A i \in 1..k : i \in 1..(k + n)
  BY <1>1
<1>8. \A i \in 1..(k + n) : i \in Nat /\ i >= 1
  BY <1>1
<1>9. /\ \A i, m : NumberAt(q, i, m) => i \in Nat /\ i >= 1
      /\ \A i, m : NumberAt(y, i, m) <=> i \in Nat /\ i >= 1 /\ NumberAt(q, i + k, m)
      /\ \A i, m : i \in 1..k => (NumberAt(q, i, m) <=> NumberAt(x, i, m))
  BY ONLY <1>3, <1>4, <1>5, <1>6, <1>7, <1>8 DEF NumberAt
<1>10. QED BY <1>0, <1>1, <1>9

LEMMA TakenLeft ==
    ASSUME NEW S, NEW q \in Seq(S)
    PROVE  Taken(q) \in Seq(S) /\ Left(q) \in Seq(S) /\ q = Taken(q) \o Left(q)
<1>1. Taken(q) \in Seq(S) /\ Left(q) \in Seq(S)
  BY TakenType
<1>2. CASE QueueMode = "one-at-a-time" /\ q # << >>
  <2>1. Taken(q) = <<Head(q)>> /\ Left(q) = Tail(q)
    BY <1>2 DEF Taken, Left
  <2>2. q = <<Head(q)>> \o Tail(q)
    BY <1>2
  <2>3. QED BY <1>1, <2>1, <2>2
<1>3. CASE ~(QueueMode = "one-at-a-time" /\ q # << >>)
  <2>1. Taken(q) = q /\ Left(q) = << >>
    BY <1>3 DEF Taken, Left
  <2>2. q = q \o << >>
    BY ConcatEmptySeq
  <2>3. QED BY <1>1, <2>1, <2>2
<1>4. QED BY <1>2, <1>3

\* The numbers of x come behind the n messages of place b.
Behind(C, D, b, n, x) ==
    /\ \A i, m : UserAt(C, b, i, m) => i \in 1..n
    /\ \A i, m : UserAt(D, b, i, m) <=>
          UserAt(C, b, i, m) \/ \E j \in 1..Len(x) : i = n + j /\ m = x[j]

\* Of a queue, the front x goes from place a behind what is in place b.
LEMMA NumbersMove ==
    ASSUME NEW C, NEW D, NEW ids, Conserved(C, ids), NEW a, NEW b, a # b, NEW n \in Nat,
           NEW S, NEW x \in Seq(S), NEW y \in Seq(S), NEW q, q = x \o y,
           \A i, m : UserAt(C, a, i, m) <=> NumberAt(q, i, m),
           \A i, m : UserAt(D, a, i, m) <=> NumberAt(y, i, m),
           Behind(C, D, b, n, x),
           \A p : p # a /\ p # b => Unmoved(C, D, p)
    PROVE  Conserved(D, ids)
<1>1. PICK k \in Nat : k = Len(x)
  OBVIOUS
<1>2. /\ \A i, m : NumberAt(q, i, m) => i \in Nat /\ i >= 1
      /\ \A i, m : NumberAt(y, i, m) <=> i \in Nat /\ i >= 1 /\ NumberAt(q, i + k, m)
      /\ \A i, m : i \in 1..k => (NumberAt(q, i, m) <=> NumberAt(x, i, m))
  <2>1. /\ \A i, m : NumberAt(x \o y, i, m) => i \in Nat /\ i >= 1
        /\ \A i, m : NumberAt(y, i, m) <=> i \in Nat /\ i >= 1 /\ NumberAt(x \o y, i + Len(x), m)
        /\ \A i, m : i \in 1..Len(x) => (NumberAt(x \o y, i, m) <=> NumberAt(x, i, m))
    BY QueueParts
  <2>2. q = x \o y
    OBVIOUS
  <2>3. QED BY ONLY <1>1, <2>1, <2>2
<1>3. FrontGone(C, D, a, k)
  BY <1>2 DEF FrontGone
<1>4. ArrivesBehind(C, D, a, k, b, n)
  <2>1. \A j \in 1..k : \A m : UserAt(C, a, j, m) <=> m = x[j]
    <3>1. \A j \in 1..k : j \in DOMAIN x
      BY <1>1
    <3>2. QED BY <1>2, <3>1 DEF NumberAt
  <2>2. \A i \in (n + 1)..(n + k) : i - n \in 1..k /\ i = n + (i - n)
    OBVIOUS
  <2>3. \A j \in 1..k : n + j \in (n + 1)..(n + k) /\ (n + j) - n = j
    OBVIOUS
  <2>4. \A i, m : (\E j \in 1..k : i = n + j /\ m = x[j]) <=>
                    i \in (n + 1)..(n + k) /\ UserAt(C, a, i - n, m)
    <3>1. ASSUME NEW i, NEW m, NEW j \in 1..k, i = n + j, m = x[j]
          PROVE  i \in (n + 1)..(n + k) /\ UserAt(C, a, i - n, m)
      BY <2>1, <2>3, <3>1
    <3>2. ASSUME NEW i \in (n + 1)..(n + k), NEW m, UserAt(C, a, i - n, m)
          PROVE  \E j \in 1..k : i = n + j /\ m = x[j]
      BY <2>1, <2>2, <3>2
    <3>3. QED BY <3>1, <3>2
  <2>5. QED BY <1>1, <2>4 DEF ArrivesBehind, Behind
<1>5. \A i, m : UserAt(C, a, i, m) => i \in Nat /\ i >= 1
  BY <1>2
<1>6. QED BY <1>3, <1>4, <1>5, SomeMove

\* A place that was empty holds x alone.
LEMMA BehindNothing ==
    ASSUME NEW C, NEW D, NEW b, NEW S, NEW x \in Seq(S),
           \A i, m : ~UserAt(C, b, i, m),
           \A i, m : UserAt(D, b, i, m) <=> NumberAt(x, i, m)
    PROVE  Behind(C, D, b, 0, x)
<1>1. DOMAIN x = 1..Len(x) /\ Len(x) \in Nat
  OBVIOUS
<1>2. \A j \in 1..Len(x) : 0 + j = j
  BY <1>1
<1>3. \A i, m : NumberAt(x, i, m) <=> \E j \in 1..Len(x) : i = 0 + j /\ m = x[j]
  BY <1>1, <1>2 DEF NumberAt
<1>4. QED BY <1>3 DEF Behind

-----------------------------------------------------------------------------
\* Events that carry no message of the user.
NoUsers(fs) == fs \in Seq(EventType) /\ \A i \in 1..Len(fs) : fs[i].message.role # "user"
Quiet(r) == \E fs : NoUsers(fs) /\ run'[r].events = run[r].events \o fs

LEMMA NoUsersConcat ==
    ASSUME NEW fs, NEW gs, NoUsers(fs), NoUsers(gs)
    PROVE  NoUsers(fs \o gs)
<1>1. fs \in Seq(EventType) /\ gs \in Seq(EventType)
  BY DEF NoUsers
<1>2. PICK c : c = fs \o gs
  OBVIOUS
<1>3. /\ c \in Seq(EventType) /\ Len(c) = Len(fs) + Len(gs)
      /\ \A i \in 1..(Len(fs) + Len(gs)) :
            \/ i \in 1..Len(fs) /\ c[i] = fs[i]
            \/ i - Len(fs) \in 1..Len(gs) /\ c[i] = gs[i - Len(fs)]
  BY <1>1, <1>2, ConcatShape
<1>4. \A i \in 1..Len(c) : c[i].message.role # "user"
  BY <1>3 DEF NoUsers
<1>5. QED BY <1>2, <1>3, <1>4 DEF NoUsers

LEMMA NoUsersSimple ==
    /\ NoUsers(<< >>) /\ NoUsers(AgentEnd)
    /\ \A m \in MessageType : m.role # "user" => NoUsers(Starts(m))
    /\ \A ns \in Seq(MessageType) :
          (\A i \in 1..Len(ns) : ns[i].role # "user") => NoUsers(Ends(ns))
<1>1. NoUsers(<< >>)
  BY DEF NoUsers
<1>2. ASSUME NEW e \in EventType, e.message.role # "user" PROVE NoUsers(<<e>>)
  <2>1. PICK fs : fs = <<e>>
    OBVIOUS
  <2>2. fs \in Seq(EventType) /\ Len(fs) = 1 /\ fs[1] = e /\ \A i \in 1..1 : i = 1
    BY <2>1
  <2>3. NoUsers(fs)
    BY <1>2, <2>2 DEF NoUsers
  <2>4. QED BY <2>1, <2>3
<1>3. NoUsers(AgentEnd)
  <2>1. PICK e : e = [kind |-> "agentEnd", message |-> NoMessage]
    OBVIOUS
  <2>2. e \in EventType /\ e.message.role # "user"
    BY <2>1, EventFields, MessageTypes DEF NoMessage
  <2>3. QED BY <1>2, <2>1, <2>2 DEF AgentEnd
<1>4. ASSUME NEW m \in MessageType, m.role # "user" PROVE NoUsers(Starts(m))
  <2>1. PICK e : e = [kind |-> "start", message |-> m]
    OBVIOUS
  <2>2. e \in EventType /\ e.message.role # "user"
    BY <1>4, <2>1, EventFields
  <2>3. QED BY <1>2, <2>1, <2>2 DEF Starts
<1>5. ASSUME NEW ns \in Seq(MessageType), \A i \in 1..Len(ns) : ns[i].role # "user"
      PROVE  NoUsers(Ends(ns))
  <2>1. PICK fs : fs = Ends(ns)
    OBVIOUS
  <2>2. /\ fs \in Seq(EventType) /\ Len(fs) = Len(ns)
        /\ \A i \in 1..Len(ns) : fs[i].message = ns[i]
    BY <2>1, EndsType
  <2>3. NoUsers(fs)
    BY <1>5, <2>2 DEF NoUsers
  <2>4. QED BY <2>1, <2>3
<1>6. QED BY <1>1, <1>3, <1>4, <1>5

\* What a stream says of the user's messages when events are put behind it.
LEMMA StreamGrows ==
    ASSUME NEW es \in Seq(EventType), NEW fs \in Seq(EventType)
    PROVE  /\ \A i, m : UserEnds(es, i, m) => i \in 1..Len(es)
           /\ NoUsers(fs) => \A i, m : UserEnds(es \o fs, i, m) <=> UserEnds(es, i, m)
           /\ \A x \in Seq(Numbers) : fs = Ends(Users(x)) =>
                 \A i, m : UserEnds(es \o fs, i, m) <=>
                    UserEnds(es, i, m) \/ \E j \in 1..Len(x) : i = Len(es) + j /\ m = x[j]
<1>0. PICK n \in Nat : n = Len(es)
  OBVIOUS
<1>1. DOMAIN es = 1..n
  BY <1>0
<1>2. PICK c : c = es \o fs
  OBVIOUS
<1>3. PICK k \in Nat : k = Len(fs)
  OBVIOUS
<1>4. /\ DOMAIN c = 1..(n + k)
      /\ \A i \in 1..n : c[i] = es[i]
      /\ \A i \in 1..k : c[n + i] = fs[i]
      /\ \A i \in 1..(n + k) : i \in 1..n \/ (i - n \in 1..k /\ i = n + (i - n))
  BY <1>0, <1>2, <1>3, ConcatShape
<1>5. \A i \in 1..n : i \in 1..(n + k)
  BY <1>1
<1>6. \A j \in 1..k : n + j \in 1..(n + k)
  BY <1>1
<1>7. \A i, m : UserEnds(c, i, m) <=>
         UserEnds(es, i, m) \/ \E j \in 1..k : i = n + j /\ fs[j].message.role = "user" /\ m = fs[j].message.id
  <2>1. ASSUME NEW i, NEW m, UserEnds(c, i, m)
        PROVE  \/ UserEnds(es, i, m)
               \/ \E j \in 1..k : i = n + j /\ fs[j].message.role = "user" /\ m = fs[j].message.id
    <3>1. i \in 1..(n + k) /\ c[i].message.role = "user" /\ m = c[i].message.id
      BY <1>4, <2>1 DEF UserEnds
    <3>2. CASE i \in 1..n
      BY <1>1, <1>4, <3>1, <3>2 DEF UserEnds
    <3>3. CASE i - n \in 1..k /\ i = n + (i - n)
      <4>1. PICK j \in 1..k : i = n + j
        BY <3>3
      <4>2. c[i] = fs[j]
        BY <1>4, <4>1
      <4>3. QED BY <3>1, <4>1, <4>2
    <3>4. QED BY <1>4, <3>1, <3>2, <3>3
  <2>2. ASSUME NEW i, NEW m, UserEnds(es, i, m) PROVE UserEnds(c, i, m)
    BY <1>1, <1>4, <1>5, <2>2 DEF UserEnds
  <2>3. ASSUME NEW j \in 1..k, fs[j].message.role = "user"
        PROVE  UserEnds(c, n + j, fs[j].message.id)
    BY <1>4, <1>6, <2>3 DEF UserEnds
  <2>4. QED BY <2>1, <2>2, <2>3
<1>8. NoUsers(fs) => \A i, m : UserEnds(c, i, m) <=> UserEnds(es, i, m)
  BY <1>3, <1>7 DEF NoUsers
<1>9. ASSUME NEW x \in Seq(Numbers), fs = Ends(Users(x))
      PROVE  \A i, m : UserEnds(c, i, m) <=>
               UserEnds(es, i, m) \/ \E j \in 1..Len(x) : i = n + j /\ m = x[j]
  <2>1. PICK us : us = Users(x)
    OBVIOUS
  <2>2. /\ us \in Seq(MessageType) /\ Len(us) = Len(x)
        /\ \A j \in 1..Len(x) : us[j].role = "user" /\ us[j].id = x[j]
    <3>1. us \in Seq(MessageType)
      BY <2>1, UsersType
    <3>2. DOMAIN us = DOMAIN x /\ \A j \in DOMAIN x : us[j] = User(x[j])
      BY <2>1 DEF Users
    <3>3. DOMAIN x = 1..Len(x) /\ DOMAIN us = 1..Len(us) /\ Len(x) \in Nat /\ Len(us) \in Nat
      BY <3>1
    <3>4. Len(us) = Len(x)
      BY <3>2, <3>3
    <3>5. QED BY <3>1, <3>2, <3>3, <3>4 DEF User
  <2>3. k = Len(x) /\ \A j \in 1..k : fs[j].message = us[j]
    BY <1>3, <1>9, <2>1, <2>2, EndsType
  <2>4. \A j \in 1..k : fs[j].message.role = "user" /\ fs[j].message.id = x[j]
    BY <2>2, <2>3
  <2>5. ASSUME NEW i, NEW m
        PROVE  UserEnds(c, i, m) <=> UserEnds(es, i, m) \/ \E j \in 1..k : i = n + j /\ m = x[j]
    <3>1. UserEnds(c, i, m) <=>
            \/ UserEnds(es, i, m)
            \/ \E j \in 1..k : i = n + j /\ fs[j].message.role = "user" /\ m = fs[j].message.id
      BY ONLY <1>7
    <3>2. (\E j \in 1..k : i = n + j /\ fs[j].message.role = "user" /\ m = fs[j].message.id)
             <=> \E j \in 1..k : i = n + j /\ m = x[j]
      BY <2>4
    <3>3. QED BY ONLY <3>1, <3>2
  <2>6. k = Len(x)
    BY <2>3
  <2>7. QED BY ONLY <2>5, <2>6
<1>10. \A i, m : UserEnds(es, i, m) => i \in 1..n
  BY <1>1 DEF UserEnds
<1>11. QED BY <1>0, <1>2, <1>8, <1>9, <1>10

-----------------------------------------------------------------------------
\* Nothing moves but in the places moved.
LEMMA RestUnmoved ==
    ASSUME TypeOK, NEW r \in Runs, Others(r), NEW moved,
           steeringQueue' = steeringQueue \/ SteeringPlace \in moved,
           followUpQueue' = followUpQueue \/ FollowUpPlace \in moved,
           messages' = messages \/ Transcript \in moved,
           run'[r].pending = run[r].pending \/ Pending(r) \in moved,
           run'[r].steering = run[r].steering \/ Found(r) \in moved,
           Quiet(r) \/ Stream(r) \in moved
    PROVE  \A p : p \notin moved => Unmoved(Held, Held', p)
<1>1. Quiet(r) => Unmoved(Held, Held', Stream(r))
  <2>1. SUFFICES ASSUME Quiet(r) PROVE Unmoved(Held, Held', Stream(r))
    OBVIOUS
  <2>2. PICK fs : NoUsers(fs) /\ run'[r].events = run[r].events \o fs
    BY <2>1 DEF Quiet
  <2>3. run[r].events \in Seq(EventType) /\ fs \in Seq(EventType)
    BY <2>2, RunFields DEF TypeOK, NoUsers
  <2>4. \A i, m : UserEnds(run[r].events \o fs, i, m) <=> UserEnds(run[r].events, i, m)
    BY <2>2, <2>3, StreamGrows
  <2>5. /\ \A i, m : UserAt(Held, Stream(r), i, m) <=> UserEnds(run[r].events, i, m)
        /\ \A i, m : UserAt(Held', Stream(r), i, m) <=> UserEnds(run'[r].events, i, m)
    BY HeldPlaces DEF HoldsAsSaid
  <2>6. QED BY <2>2, <2>4, <2>5 DEF Unmoved
<1>2. ASSUME NEW p \in {SteeringPlace, FollowUpPlace, Transcript}, p \notin moved
      PROVE  Unmoved(Held, Held', p)
  BY <1>2, LeftAlone
<1>3. ASSUME NEW q \in Runs, NEW p \in {Pending(q), Found(q), Stream(q)}, p \notin moved
      PROVE  Unmoved(Held, Held', p)
  <2>1. CASE q = r
    BY <1>1, <1>3, <2>1, LeftAlone
  <2>2. CASE q # r
    <3>1. run'[q] = run[q]
      BY <2>2 DEF Others
    <3>2. QED BY <1>3, <3>1, LeftAlone
  <2>3. QED BY <2>1, <2>2
<1>4. \A p : p \notin Places => Unmoved(Held, Held', p)
  BY LeftAlone
<1>5. QED BY <1>2, <1>3, <1>4, PlacesAre

LEMMA SameEventsQuiet ==
    ASSUME TypeOK, NEW r \in Runs, run'[r].events = run[r].events
    PROVE  Quiet(r)
<1>1. run[r].events \in Seq(EventType)
  BY RunFields DEF TypeOK
<1>2. run[r].events \o << >> = run[r].events
  BY <1>1, ConcatEmptySeq
<1>3. QED BY <1>2, NoUsersSimple DEF Quiet

\* The places are different from one another.
LEMMA PlacesDiffer ==
    ASSUME NEW r
    PROVE  /\ SteeringPlace # Pending(r) /\ FollowUpPlace # Pending(r) /\ Found(r) # Pending(r)
           /\ SteeringPlace # Found(r) /\ Pending(r) # Stream(r) /\ Stream(r) # Transcript
           /\ SteeringPlace # Stream(r) /\ FollowUpPlace # Stream(r)
           /\ SteeringPlace # FollowUpPlace
BY DEF SteeringPlace, FollowUpPlace, Transcript, Pending, Found, Stream

LEMMA EmptyPlaces == \A i, m : ~NumberAt(<< >>, i, m) /\ ~UserEnds(<< >>, i, m)
BY DEF NumberAt, UserEnds

\* What a run holds in its hands, and when.
HandsOf(r) ==
    /\ run[r].at # "turn" => run[r].pending = << >>
    /\ run[r].at # "tools" => run[r].steering = << >>
    /\ run[r].at = "idle" => run[r].events = << >>
    /\ \A i \in 1..Len(run[r].events) :
          run[r].events[i].kind # "end" => run[r].events[i].message.role # "user"
HandsInv == \A r \in Runs : HandsOf(r)
Sent == (1..(nextMessage - 1)) \ withdrawn

\* getSteeringMessages: the front of the queue gets pending.
LEMMA PollMoves ==
    ASSUME TypeOK, NEW r \in Runs, HandsOf(r), PollSteering(r), NEW ids, Conserved(Held, ids)
    PROVE  Conserved(Held', ids) /\ run'[r].steering = run[r].steering
           /\ (run'[r].at = "yield" => run'[r].pending = << >>)
<1>1. RunsType /\ run[r] \in RunType /\ steeringQueue \in Seq(Numbers)
  BY DEF TypeOK, RunsType
<1>2. Others(r) /\ run'[r].events = run[r].events /\ run[r].at = "poll"
  BY PollSteeringShape
<1>3. PICK x : x = IF run[r].skipPoll THEN << >> ELSE Taken(steeringQueue)
  OBVIOUS
<1>4. /\ run'[r].pending = x /\ run'[r].steering = run[r].steering
      /\ run'[r].at = IF Loops(run[r].hasMore, x) THEN "turn" ELSE "yield"
  BY <1>1, <1>3 DEF PollSteering, RunsType, RunType
<1>5. steeringQueue' = IF run[r].skipPoll THEN steeringQueue ELSE Left(steeringQueue)
  BY DEF PollSteering
<1>6. followUpQueue' = followUpQueue /\ messages' = messages
  BY DEF PollSteering, loopUnchanged
<1>7. x \in Seq(Numbers) /\ steeringQueue' \in Seq(Numbers) /\ steeringQueue = x \o steeringQueue'
  <2>1. CASE run[r].skipPoll
    <3>1. steeringQueue = << >> \o steeringQueue
      BY <1>1, ConcatEmptySeq
    <3>2. << >> \in Seq(Numbers)
      OBVIOUS
    <3>3. QED BY <1>1, <1>3, <1>5, <2>1, <3>1, <3>2
  <2>2. CASE ~run[r].skipPoll
    BY <1>1, <1>3, <1>5, <2>2, TakenLeft
  <2>3. QED BY <2>1, <2>2
<1>8. run[r].pending = << >>
  BY <1>2 DEF HandsOf
<1>9. /\ \A i, m : UserAt(Held, SteeringPlace, i, m) <=> NumberAt(steeringQueue, i, m)
      /\ \A i, m : UserAt(Held', SteeringPlace, i, m) <=> NumberAt(steeringQueue', i, m)
      /\ \A i, m : ~UserAt(Held, Pending(r), i, m)
      /\ \A i, m : UserAt(Held', Pending(r), i, m) <=> NumberAt(x, i, m)
  BY <1>4, <1>8, HeldPlaces, EmptyPlaces DEF HoldsAsSaid
<1>10. Behind(Held, Held', Pending(r), 0, x)
  BY <1>7, <1>9, BehindNothing
<1>11. \A p : p # SteeringPlace /\ p # Pending(r) => Unmoved(Held, Held', p)
  <2>1. Quiet(r)
    BY <1>2, SameEventsQuiet
  <2>2. \A p : p \notin {SteeringPlace, Pending(r)} => Unmoved(Held, Held', p)
    BY <1>2, <1>4, <1>6, <2>1, RestUnmoved
  <2>3. QED BY <2>2
<1>12. Conserved(Held', ids)
  BY <1>7, <1>9, <1>10, <1>11, PlacesDiffer, NumbersMove
<1>13. run'[r].at = "yield" => run'[r].pending = << >>
  BY <1>4 DEF Loops
<1>14. QED BY <1>4, <1>12, <1>13

\* The pending messages go on the stream.
LEMMA BeginMoves ==
    ASSUME TypeOK, NEW r \in Runs, BeginTurn(r), NEW ids, Conserved(Held, ids)
    PROVE  Conserved(Held', ids) /\ run'[r].pending = << >> /\ run'[r].steering = run[r].steering
<1>1. RunsType /\ run[r] \in RunType
  BY DEF TypeOK, RunsType
<1>2. PICK x \in Seq(Numbers) : x = run[r].pending
  BY <1>1, RunFields
<1>3. Others(r)
  BY BeginTurnShape
<1>4. /\ run'[r].pending = << >> /\ run'[r].steering = run[r].steering
      /\ run'[r].events = run[r].events \o Ends(Users(x))
  BY <1>1, <1>2 DEF BeginTurn, RunsType, RunType
<1>5. steeringQueue' = steeringQueue /\ followUpQueue' = followUpQueue /\ messages' = messages
  BY DEF BeginTurn, loopUnchanged
<1>6. PICK n \in Nat : n = Len(run[r].events)
  BY <1>1, RunFields
<1>7. run[r].events \in Seq(EventType) /\ Ends(Users(x)) \in Seq(EventType)
  BY <1>1, RunFields, UsersType, EndsType
<1>8. /\ \A i, m : UserEnds(run[r].events, i, m) => i \in 1..n
      /\ \A i, m : UserEnds(run'[r].events, i, m) <=>
            UserEnds(run[r].events, i, m) \/ \E j \in 1..Len(x) : i = n + j /\ m = x[j]
  <2>1. PICK es \in Seq(EventType) : es = run[r].events
    BY <1>7
  <2>2. PICK fs \in Seq(EventType) : fs = Ends(Users(x))
    BY <1>7
  <2>3. /\ \A i, m : UserEnds(es, i, m) => i \in 1..Len(es)
        /\ \A i, m : UserEnds(es \o fs, i, m) <=>
              UserEnds(es, i, m) \/ \E j \in 1..Len(x) : i = Len(es) + j /\ m = x[j]
    BY <2>2, StreamGrows
  <2>4. run'[r].events = es \o fs
    BY <1>4, <2>1, <2>2
  <2>5. n = Len(es)
    BY <1>6, <2>1
  <2>6. /\ \A i, m : UserEnds(es, i, m) => i \in 1..n
        /\ \A i, m : UserEnds(es \o fs, i, m) <=>
              UserEnds(es, i, m) \/ \E j \in 1..Len(x) : i = n + j /\ m = x[j]
    BY ONLY <2>3, <2>5
  <2>7. QED BY ONLY <2>1, <2>4, <2>6
<1>9. /\ \A i, m : UserAt(Held, Pending(r), i, m) <=> NumberAt(x, i, m)
      /\ \A i, m : UserAt(Held', Pending(r), i, m) <=> NumberAt(<< >>, i, m)
      /\ \A i, m : UserAt(Held, Stream(r), i, m) <=> UserEnds(run[r].events, i, m)
      /\ \A i, m : UserAt(Held', Stream(r), i, m) <=> UserEnds(run'[r].events, i, m)
  <2>1. /\ \A i, m : UserAt(Held, Pending(r), i, m) <=> NumberAt(run[r].pending, i, m)
        /\ \A i, m : UserAt(Held', Pending(r), i, m) <=> NumberAt(run'[r].pending, i, m)
        /\ \A i, m : UserAt(Held, Stream(r), i, m) <=> UserEnds(run[r].events, i, m)
        /\ \A i, m : UserAt(Held', Stream(r), i, m) <=> UserEnds(run'[r].events, i, m)
    BY HeldPlaces DEF HoldsAsSaid
  <2>2. x = run[r].pending /\ run'[r].pending = << >>
    BY <1>2, <1>4
  <2>3. QED BY ONLY <2>1, <2>2
<1>10. Behind(Held, Held', Stream(r), n, x)
  BY <1>8, <1>9 DEF Behind
<1>11. \A p : p # Pending(r) /\ p # Stream(r) => Unmoved(Held, Held', p)
  <2>1. \A p : p \notin {Pending(r), Stream(r)} => Unmoved(Held, Held', p)
    BY <1>3, <1>4, <1>5, RestUnmoved
  <2>2. QED BY <2>1
<1>12. x = x \o << >> /\ << >> \in Seq(Numbers)
  BY ConcatEmptySeq
<1>13. Conserved(Held', ids)
  BY <1>9, <1>10, <1>11, <1>12, PlacesDiffer, NumbersMove
<1>14. QED BY <1>4, <1>13

\* A step that only puts events without user messages on the stream.
LEMMA QuietKeeps ==
    ASSUME TypeOK, NEW r \in Runs, Others(r), Quiet(r), NEW ids, Conserved(Held, ids),
           run'[r].pending = run[r].pending, run'[r].steering = run[r].steering,
           steeringQueue' = steeringQueue, followUpQueue' = followUpQueue, messages' = messages
    PROVE  Conserved(Held', ids)
<1>1. PICK moved : moved = {}
  OBVIOUS
<1>2. \A p : p \notin moved => Unmoved(Held, Held', p)
  BY RestUnmoved
<1>3. \A p : Unmoved(Held, Held', p)
  BY <1>1, <1>2
<1>4. QED BY <1>3, NothingMoves

\* An immediate interrupt: the front of the queue gets into the batch's hands.
LEMMA AnswerMoves ==
    ASSUME TypeOK, NEW r \in Runs, AnswerCall(r), NEW ids, Conserved(Held, ids)
    PROVE  Conserved(Held', ids) /\ run'[r].pending = run[r].pending /\ Quiet(r)
<1>1. RunsType /\ run[r] \in RunType /\ steeringQueue \in Seq(Numbers)
  BY DEF TypeOK, RunsType
<1>2. Others(r)
  BY AnswerCallShape
<1>3. Quiet(r)
  <2>1. PICK k \in CallNumbers : /\ ToolResult(run[r].turn, k) \in MessageType
                                 /\ run'[r].events = run[r].events \o Ends(<<ToolResult(run[r].turn, k)>>)
    BY AnswerCallShape
  <2>2. PICK m \in MessageType : m = ToolResult(run[r].turn, k)
    BY <2>1
  <2>3. PICK ns : ns = <<m>>
    OBVIOUS
  <2>4. ns \in Seq(MessageType) /\ \A i \in 1..Len(ns) : ns[i].role # "user"
    <3>1. m.role # "user"
      BY <2>2 DEF ToolResult
    <3>2. Len(ns) = 1 /\ ns[1] = m /\ \A i \in 1..1 : i = 1
      BY <2>3
    <3>3. QED BY <2>3, <3>1, <3>2
  <2>5. NoUsers(Ends(ns))
    BY <2>4, NoUsersSimple
  <2>6. QED BY <2>1, <2>2, <2>3, <2>5 DEF Quiet
<1>4. PICK looks \in BOOLEAN : looks = (interruptMode # "wait" /\ run[r].steering = << >>)
  <2>1. (interruptMode # "wait" /\ run[r].steering = << >>) \in BOOLEAN
    OBVIOUS
  <2>2. QED BY <2>1
<1>5. /\ run'[r].pending = run[r].pending
      /\ run'[r].steering = IF looks THEN Taken(steeringQueue) ELSE run[r].steering
  <2>1. PICK es, as :
           run' = [run EXCEPT ![r].events = es,
                              ![r].answered = as,
                              ![r].steering = IF looks THEN Taken(steeringQueue)
                                                       ELSE run[r].steering]
    BY <1>4 DEF AnswerCall
  <2>2. QED BY <1>1, <2>1 DEF RunsType, RunType
<1>6. steeringQueue' = IF looks THEN Left(steeringQueue) ELSE steeringQueue
  BY <1>4 DEF AnswerCall
<1>7. followUpQueue' = followUpQueue /\ messages' = messages
  BY DEF AnswerCall, loopUnchanged
<1>8. CASE ~looks
  BY <1>2, <1>3, <1>5, <1>6, <1>7, <1>8, QuietKeeps
<1>9. CASE looks
  <2>1. PICK x \in Seq(Numbers) : x = Taken(steeringQueue)
    BY <1>1, TakenLeft
  <2>2. steeringQueue' \in Seq(Numbers) /\ steeringQueue = x \o steeringQueue'
    BY <1>1, <1>6, <1>9, <2>1, TakenLeft
  <2>3. run[r].steering = << >> /\ run'[r].steering = x
    BY <1>4, <1>5, <1>9, <2>1
  <2>4. /\ \A i, m : UserAt(Held, SteeringPlace, i, m) <=> NumberAt(steeringQueue, i, m)
        /\ \A i, m : UserAt(Held', SteeringPlace, i, m) <=> NumberAt(steeringQueue', i, m)
        /\ \A i, m : ~UserAt(Held, Found(r), i, m)
        /\ \A i, m : UserAt(Held', Found(r), i, m) <=> NumberAt(x, i, m)
    BY <2>3, HeldPlaces, EmptyPlaces DEF HoldsAsSaid
  <2>5. Behind(Held, Held', Found(r), 0, x)
    BY <2>4, BehindNothing
  <2>6. \A p : p \notin {SteeringPlace, Found(r)} => Unmoved(Held, Held', p)
    BY <1>2, <1>3, <1>5, <1>7, RestUnmoved
  <2>7. \A p : p # SteeringPlace /\ p # Found(r) => Unmoved(Held, Held', p)
    BY <2>6
  <2>8. Conserved(Held', ids)
    BY <2>2, <2>4, <2>5, <2>7, PlacesDiffer, NumbersMove
  <2>9. QED BY <1>3, <1>5, <2>8
<1>10. QED BY <1>8, <1>9, <1>5, <1>3

\* What the batch found becomes pending.
LEMMA EndToolsMoves ==
    ASSUME TypeOK, NEW r \in Runs, HandsOf(r), EndTools(r), NEW ids, Conserved(Held, ids)
    PROVE  /\ Conserved(Held', ids) /\ run'[r].steering = << >>
           /\ run'[r].at # "turn" => run'[r].pending = << >>
<1>1. RunsType /\ run[r] \in RunType
  BY DEF TypeOK, RunsType
<1>2. Others(r) /\ run[r].at = "tools" /\ run'[r].events = run[r].events
  BY EndToolsShape
<1>3. PICK x \in Seq(Numbers) : x = run[r].steering
  BY <1>1, RunFields
<1>4. /\ run'[r].pending = x /\ run'[r].steering = << >>
      /\ run'[r].at = IF x # << >> THEN "turn" ELSE "poll"
  BY <1>1, <1>3 DEF EndTools, RunsType, RunType
<1>5. steeringQueue' = steeringQueue /\ followUpQueue' = followUpQueue /\ messages' = messages
  BY DEF EndTools, loopUnchanged
<1>6. run[r].pending = << >>
  BY <1>2 DEF HandsOf
<1>7. /\ \A i, m : UserAt(Held, Found(r), i, m) <=> NumberAt(x, i, m)
      /\ \A i, m : UserAt(Held', Found(r), i, m) <=> NumberAt(<< >>, i, m)
      /\ \A i, m : ~UserAt(Held, Pending(r), i, m)
      /\ \A i, m : UserAt(Held', Pending(r), i, m) <=> NumberAt(x, i, m)
  <2>1. /\ \A i, m : UserAt(Held, Found(r), i, m) <=> NumberAt(run[r].steering, i, m)
        /\ \A i, m : UserAt(Held', Found(r), i, m) <=> NumberAt(run'[r].steering, i, m)
        /\ \A i, m : UserAt(Held, Pending(r), i, m) <=> NumberAt(run[r].pending, i, m)
        /\ \A i, m : UserAt(Held', Pending(r), i, m) <=> NumberAt(run'[r].pending, i, m)
    BY HeldPlaces DEF HoldsAsSaid
  <2>2. QED BY <1>3, <1>4, <1>6, <2>1, EmptyPlaces
<1>8. Behind(Held, Held', Pending(r), 0, x)
  BY <1>7, BehindNothing
<1>9. \A p : p # Found(r) /\ p # Pending(r) => Unmoved(Held, Held', p)
  <2>1. Quiet(r)
    BY <1>2, SameEventsQuiet
  <2>2. \A p : p \notin {Found(r), Pending(r)} => Unmoved(Held, Held', p)
    BY <1>2, <1>5, <2>1, RestUnmoved
  <2>3. QED BY <2>2
<1>10. x = x \o << >> /\ << >> \in Seq(Numbers)
  BY ConcatEmptySeq
<1>11. Conserved(Held', ids)
  BY <1>7, <1>8, <1>9, <1>10, PlacesDiffer, NumbersMove
<1>12. QED BY <1>4, <1>11

\* Follow-ups become pending.
LEMMA YieldMoves ==
    ASSUME TypeOK, NEW r \in Runs, HandsOf(r), Yield(r), NEW ids, Conserved(Held, ids)
    PROVE  /\ Conserved(Held', ids) /\ run'[r].steering = run[r].steering /\ Quiet(r)
           /\ run'[r].at # "turn" => run'[r].pending = << >>
<1>1. RunsType /\ run[r] \in RunType /\ followUpQueue \in Seq(Numbers)
  BY DEF TypeOK, RunsType
<1>2. Others(r) /\ run[r].at = "yield"
  BY YieldShape
<1>3. Quiet(r)
  <2>1. CASE run'[r].events = run[r].events
    BY <2>1, SameEventsQuiet
  <2>2. CASE run'[r].events = run[r].events \o AgentEnd
    BY <2>2, NoUsersSimple DEF Quiet
  <2>3. QED BY <2>1, <2>2, YieldShape
<1>4. PICK x \in Seq(Numbers) : x = Taken(followUpQueue)
  BY <1>1, TakenLeft
<1>5. run[r].pending = << >>
  BY <1>2 DEF HandsOf
<1>6. /\ run'[r].pending = x /\ run'[r].steering = run[r].steering
      /\ run'[r].at = IF x # << >> THEN "turn" ELSE "ended"
  <2>1. CASE x # << >>
    BY <1>1, <1>4, <2>1 DEF Yield, RunsType, RunType
  <2>2. CASE x = << >>
    BY <1>1, <1>4, <1>5, <2>2 DEF Yield, RunsType, RunType
  <2>3. QED BY <2>1, <2>2
<1>7. followUpQueue' = Left(followUpQueue) /\ steeringQueue' = steeringQueue /\ messages' = messages
  BY DEF Yield, loopUnchanged
<1>8. followUpQueue' \in Seq(Numbers) /\ followUpQueue = x \o followUpQueue'
  BY <1>1, <1>4, <1>7, TakenLeft
<1>9. /\ \A i, m : UserAt(Held, FollowUpPlace, i, m) <=> NumberAt(followUpQueue, i, m)
      /\ \A i, m : UserAt(Held', FollowUpPlace, i, m) <=> NumberAt(followUpQueue', i, m)
      /\ \A i, m : ~UserAt(Held, Pending(r), i, m)
      /\ \A i, m : UserAt(Held', Pending(r), i, m) <=> NumberAt(x, i, m)
  BY <1>5, <1>6, HeldPlaces, EmptyPlaces DEF HoldsAsSaid
<1>10. Behind(Held, Held', Pending(r), 0, x)
  BY <1>9, BehindNothing
<1>11. \A p : p \notin {FollowUpPlace, Pending(r)} => Unmoved(Held, Held', p)
  BY <1>2, <1>3, <1>6, <1>7, RestUnmoved
<1>12. \A p : p # FollowUpPlace /\ p # Pending(r) => Unmoved(Held, Held', p)
  BY <1>11
<1>13. Conserved(Held', ids)
  BY <1>8, <1>9, <1>10, <1>12, PlacesDiffer, NumbersMove
<1>14. QED BY <1>3, <1>6, <1>13

\* A response begins, ends, fails or leaks: no message of the user moves.
LEMMA ResponseMoves ==
    ASSUME TypeOK, LoopInv, NEW r \in Runs, NEW ids, Conserved(Held, ids),
           OpenResponse(r) \/ CompleteResponse(r) \/ AbortResponse(r) \/ FailResponse(r) \/ LeakResponse(r)
    PROVE  /\ Conserved(Held', ids) /\ Quiet(r)
           /\ run'[r].pending = run[r].pending /\ run'[r].steering = run[r].steering
<1>1. RunsType /\ run[r] \in RunType
  BY DEF TypeOK, RunsType
<1>2. run[r].at = "streaming" => run[r].ctx # << >>
  BY DEF LoopInv, InTheMaking, LastIs
<1>3. /\ run'[r].pending = run[r].pending /\ run'[r].steering = run[r].steering
  <2>1. CASE OpenResponse(r)
    <3>1. PICK n \in 0..MaxCalls :
            run' = [run EXCEPT ![r].ctx = Append(@, Assistant(nextTurn, n, "partial")),
                               ![r].events = @ \o Starts(Assistant(nextTurn, n, "partial")),
                               ![r].turn = nextTurn, ![r].calls = n, ![r].at = "streaming"]
      BY <2>1 DEF OpenResponse
    <3>2. QED BY <1>1, <3>1 DEF RunsType, RunType
  <2>2. CASE CompleteResponse(r) \/ AbortResponse(r)
    <3>1. PICK base, opening, m : Finalize(r, base, opening, m)
      BY <2>2 DEF CompleteResponse, AbortResponse
    <3>2. QED BY <1>1, <3>1 DEF Finalize, RunsType, RunType
  <2>3. CASE FailResponse(r)
    BY <1>1, <2>3 DEF FailResponse, RunsType, RunType
  <2>4. CASE LeakResponse(r)
    BY <1>1, <2>4 DEF LeakResponse, RunsType, RunType
  <2>5. QED BY <2>1, <2>2, <2>3, <2>4
<1>4. steeringQueue' = steeringQueue /\ followUpQueue' = followUpQueue /\ messages' = messages
  BY DEF OpenResponse, CompleteResponse, AbortResponse, FailResponse, LeakResponse, loopUnchanged
<1>5. Others(r) /\ Quiet(r)
  <2>1. CASE OpenResponse(r)
    <3>1. PICK m \in MessageType : run'[r].events = run[r].events \o Starts(m) /\ m.role # "user"
      <4>1. PICK n \in 0..MaxCalls : /\ run'[r].events = run[r].events \o Starts(Assistant(nextTurn, n, "partial"))
                                     /\ Assistant(nextTurn, n, "partial") \in MessageType
        BY <2>1, OpenResponseShape
      <4>2. QED BY <4>1 DEF Assistant
    <3>2. NoUsers(Starts(m))
      BY <3>1, NoUsersSimple
    <3>3. QED BY <2>1, <3>1, <3>2, OpenResponseShape DEF Quiet
  <2>2. CASE CompleteResponse(r) \/ AbortResponse(r)
    <3>1. PICK base \in Seq(MessageType), opening \in Seq(EventType), x \in 0..MaxTurns, n \in 0..MaxCalls,
               stop \in {"stop", "length", "error", "aborted"} :
                 /\ Finalize(r, base, opening, Assistant(x, n, stop))
                 /\ opening = << >> \/ opening = Starts(Assistant(0, 0, "aborted"))
      BY <1>2, <2>2, ResponseEndsShape
    <3>2. PICK ph \in Seq(MessageType), tl \in Seq(EventType) : Finalized(r, base, opening, x, n, stop, ph, tl)
      BY <3>1, FinalizeShape
    <3>3. Others(r)
      BY <3>1, FinalizeShape
    <3>4. NoUsers(opening)
      <4>1. PICK m \in MessageType : m = Assistant(0, 0, "aborted")
        <5>1. 0 \in 0..MaxTurns /\ 0 \in 0..MaxCalls
          BY BoundsAssumption
        <5>2. Assistant(0, 0, "aborted") \in MessageType
          BY <5>1, MessageTypes
        <5>3. QED BY <5>2
      <4>2. m.role # "user"
        BY <4>1 DEF Assistant
      <4>3. NoUsers(Starts(m))
        BY <4>2, NoUsersSimple
      <4>4. QED BY <3>1, <4>1, <4>3, NoUsersSimple
    <3>5. PICK m \in MessageType : m = Assistant(x, n, stop)
      BY <3>2 DEF Finalized
    <3>6. PICK ns : ns = <<m>> \o ph
      OBVIOUS
    <3>7. NoUsers(Ends(ns))
      <4>1. \A i \in 1..Len(ph) : ph[i].role # "user"
        <5>1. CASE ph = << >>
          BY <5>1
        <5>2. CASE AllResults(ph, x, n)
          BY <5>2 DEF AllResults, ToolResult
        <5>3. QED BY <3>2, <5>1, <5>2 DEF Finalized
      <4>2. m.role # "user"
        BY <3>5 DEF Assistant
      <4>3. /\ ns \in Seq(MessageType) /\ Len(ns) = 1 + Len(ph) /\ ns[1] = m
            /\ \A i \in 1..(1 + Len(ph)) : i = 1 \/ (i - 1 \in 1..Len(ph) /\ ns[i] = ph[i - 1])
        BY <3>6, ConsShape
      <4>4. \A i \in 1..Len(ns) : ns[i].role # "user"
        BY <4>1, <4>2, <4>3
      <4>5. QED BY <4>3, <4>4, NoUsersSimple
    <3>8. NoUsers(tl)
      BY <3>2, NoUsersSimple DEF Finalized
    <3>9. run'[r].events = ((run[r].events \o opening) \o Ends(ns)) \o tl
      BY <3>2, <3>5, <3>6 DEF Finalized
    <3>10. PICK es \in Seq(EventType) : es = run[r].events
      BY <1>1, RunFields
    <3>11. PICK ends \in Seq(EventType) : ends = Ends(ns)
      BY <3>7 DEF NoUsers
    <3>12. opening \in Seq(EventType) /\ tl \in Seq(EventType)
      BY <3>4, <3>8 DEF NoUsers
    <3>13. PICK eo : eo = es \o opening
      OBVIOUS
    <3>14. PICK eoe : eoe = eo \o ends
      OBVIOUS
    <3>15. PICK oe \in Seq(EventType) : oe = opening \o ends
      BY <3>12, ConcatShape
    <3>16. PICK fs : fs = oe \o tl
      OBVIOUS
    <3>17. eoe \o tl = es \o fs
      <4>1. \A s, t \in Seq(EventType) : (es \o s) \o t = es \o (s \o t)
        BY ONLY EventsAssociative
      <4>2. \A t \in Seq(EventType) : (es \o opening) \o t = es \o (opening \o t)
        BY ONLY <4>1
      <4>3. \A t \in Seq(EventType) : (es \o oe) \o t = es \o (oe \o t)
        BY ONLY <4>1
      <4>4. (es \o opening) \o ends = es \o (opening \o ends)
        BY ONLY <4>2
      <4>5. (es \o oe) \o tl = es \o (oe \o tl)
        BY ONLY <4>3
      <4>6. eoe = es \o oe
        BY ONLY <3>13, <3>14, <3>15, <4>4
      <4>7. QED BY ONLY <3>16, <4>5, <4>6
    <3>18. NoUsers(fs)
      <4>1. NoUsers(oe)
        BY <3>4, <3>7, <3>11, <3>15, NoUsersConcat
      <4>2. QED BY <3>8, <3>16, <4>1, NoUsersConcat
    <3>19. run'[r].events = run[r].events \o fs
      BY <3>9, <3>10, <3>11, <3>13, <3>14, <3>17
    <3>20. QED BY <3>3, <3>18, <3>19 DEF Quiet
  <2>3. CASE FailResponse(r)
    BY <2>3, FailResponseShape, SameEventsQuiet
  <2>4. CASE LeakResponse(r)
    <3>1. run[r].ctx # << >>
      BY <1>2, <2>4 DEF LeakResponse
    <3>2. QED BY <2>4, <3>1, LeakResponseShape, SameEventsQuiet
  <2>5. QED BY <2>1, <2>2, <2>3, <2>4
<1>6. Conserved(Held', ids)
  BY <1>3, <1>4, <1>5, QuietKeeps
<1>7. QED BY <1>3, <1>5, <1>6

\* The consumer takes an event: a message_end goes to the transcript.
LEMMA ConsumeMoves ==
    ASSUME TypeOK, NEW r \in Runs, HandsOf(r), Consume(r), NEW ids, Conserved(Held, ids)
    PROVE  /\ Conserved(Held', ids)
           /\ run'[r].pending = run[r].pending /\ run'[r].steering = run[r].steering
<1>1. RunsType /\ run[r] \in RunType /\ messages \in Seq(MessageType)
  BY DEF TypeOK, RunsType
<1>2. PICK es \in Seq(EventType) : es = run[r].events
  BY <1>1, RunFields
<1>3. /\ Others(r) /\ es # << >> /\ run'[r].events = Tail(es)
      /\ es[1].kind = "end" => messages' = Append(messages, es[1].message)
      /\ es[1].kind # "end" => messages' = messages
  <2>1. es # << >> /\ es[1] \in EventType
    BY <1>2, ConsumeShape
  <2>2. es[1].kind \in {"start", "end", "agentEnd"}
    BY <2>1 DEF EventType
  <2>3. QED BY <1>2, <2>1, <2>2, ConsumeShape
<1>4. run'[r].pending = run[r].pending /\ run'[r].steering = run[r].steering
  BY <1>1 DEF Consume, RunsType, RunType
<1>5. steeringQueue' = steeringQueue /\ followUpQueue' = followUpQueue
  BY DEF Consume
<1>6. PICK n \in Nat : n = Len(messages)
  BY <1>1
<1>7. PICK k \in Nat : k = Len(es)
  OBVIOUS
<1>8. DOMAIN es = 1..k /\ k >= 1 /\ DOMAIN messages = 1..n
  BY <1>1, <1>3, <1>6, <1>7
<1>9. /\ \A i, m : UserAt(Held, Stream(r), i, m) <=> UserEnds(es, i, m)
      /\ \A i, m : UserAt(Held', Stream(r), i, m) <=> UserEnds(run'[r].events, i, m)
      /\ \A i, m : UserAt(Held, Transcript, i, m) <=> i \in UsersIn(messages) /\ m = messages[i].id
      /\ \A i, m : UserAt(Held', Transcript, i, m) <=> i \in UsersIn(messages') /\ m = messages'[i].id
  BY <1>2, HeldPlaces DEF HoldsAsSaid
<1>10. FrontGone(Held, Held', Stream(r), 1)
  <2>1. PICK t : t = Tail(es)
    OBVIOUS
  <2>2. DOMAIN t = 1..(k - 1) /\ \A i \in 1..(k - 1) : t[i] = es[i + 1]
    BY <1>3, <1>7, <1>8, <2>1
  <2>3. \A i \in 1..(k - 1) : i \in Nat /\ i >= 1 /\ i + 1 \in 1..k
    BY <1>8
  <2>4. \A i \in Nat : i >= 1 /\ i + 1 \in 1..k => i \in 1..(k - 1)
    BY <1>8
  <2>5. \A i, m : UserEnds(t, i, m) <=> i \in Nat /\ i >= 1 /\ UserEnds(es, i + 1, m)
    BY <1>8, <2>2, <2>3, <2>4 DEF UserEnds
  <2>6. QED BY <1>3, <1>9, <2>1, <2>5 DEF FrontGone
<1>11. \A i, m : UserAt(Held, Stream(r), i, m) => i \in Nat /\ i >= 1
  BY <1>8, <1>9 DEF UserEnds
<1>12. \A i, m : UserAt(Held, Transcript, i, m) => i \in 1..n
  BY <1>8, <1>9 DEF UsersIn
<1>13. (n + 1)..(n + 1) = {n + 1} /\ (n + 1) - n = 1
  BY <1>6
<1>14. \A i, m : UserAt(Held', Transcript, i, m) <=>
          \/ UserAt(Held, Transcript, i, m)
          \/ i \in (n + 1)..(n + 1) /\ UserAt(Held, Stream(r), i - n, m)
  <2>1. CASE es[1].kind # "end"
    <3>1. es[1].message.role # "user"
      BY <1>2, <1>7, <1>8, <2>1 DEF HandsOf
    <3>2. \A m : ~UserAt(Held, Stream(r), 1, m)
      BY <1>9, <3>1 DEF UserEnds
    <3>3. \A i, m : ~(i \in (n + 1)..(n + 1) /\ UserAt(Held, Stream(r), i - n, m))
      BY <1>13, <3>2
    <3>4. messages' = messages
      BY <1>3, <2>1
    <3>5. \A i, m : UserAt(Held', Transcript, i, m) <=> UserAt(Held, Transcript, i, m)
      BY <1>9, <3>4
    <3>6. QED BY <3>3, <3>5
  <2>2. CASE es[1].kind = "end"
    <3>1. PICK e \in MessageType : e = es[1].message
      BY <1>3, EventFields
    <3>2. PICK ms : ms = Append(messages, e)
      OBVIOUS
    <3>3. messages' = ms
      BY <1>3, <2>2, <3>1, <3>2
    <3>4. DOMAIN ms = 1..(n + 1) /\ ms[n + 1] = e /\ \A i \in 1..n : ms[i] = messages[i]
      BY <1>1, <1>6, <3>2, AppendProperties
    <3>5. \A i : i \in 1..(n + 1) <=> i \in 1..n \/ i = n + 1
      BY <1>6
    <3>6. \A i, m : i \in UsersIn(ms) /\ m = ms[i].id <=>
             \/ i \in UsersIn(messages) /\ m = messages[i].id
             \/ i = n + 1 /\ e.role = "user" /\ m = e.id
      <4>1. ~(n + 1 \in 1..n)
        BY <1>6
      <4>2. QED BY <1>8, <3>4, <3>5, <4>1 DEF UsersIn
    <3>7. \A m : UserAt(Held, Stream(r), 1, m) <=> e.role = "user" /\ m = e.id
      BY <1>8, <1>9, <3>1 DEF UserEnds
    <3>8. \A i, m : i \in (n + 1)..(n + 1) /\ UserAt(Held, Stream(r), i - n, m)
                      <=> i = n + 1 /\ e.role = "user" /\ m = e.id
      BY <1>13, <3>7
    <3>9. QED BY <1>9, <3>3, <3>6, <3>8
  <2>3. QED BY <2>1, <2>2
<1>15. ArrivesBehind(Held, Held', Stream(r), 1, Transcript, n)
  BY <1>12, <1>14 DEF ArrivesBehind
<1>16. \A p : p \notin {Stream(r), Transcript} => Unmoved(Held, Held', p)
  BY <1>3, <1>4, <1>5, RestUnmoved
<1>17. \A p : p # Stream(r) /\ p # Transcript => Unmoved(Held, Held', p)
  BY <1>16
<1>18. Conserved(Held', ids)
  BY <1>10, <1>11, <1>15, <1>17, PlacesDiffer, SomeMove
<1>19. QED BY <1>4, <1>18

\* The end of a run puts at most a response in the transcript.
LEMMA SettleMoves ==
    ASSUME TypeOK, NEW r \in Runs, Settle(r), NEW ids, Conserved(Held, ids)
    PROVE  /\ Conserved(Held', ids) /\ run'[r].events = run[r].events
           /\ run'[r].pending = run[r].pending /\ run'[r].steering = run[r].steering
<1>1. RunsType /\ run[r] \in RunType /\ messages \in Seq(MessageType)
  BY DEF TypeOK, RunsType
<1>2. PICK l \in Seq(MessageType) : l = Leftover(r) /\ messages' = messages \o l
  BY SettleShape
<1>3. /\ Others(r) /\ run'[r].events = run[r].events
      /\ run'[r].pending = run[r].pending /\ run'[r].steering = run[r].steering
  <2>1. Others(r) /\ run'[r].events = run[r].events
    BY SettleShape
  <2>2. QED BY <1>1, <2>1 DEF Settle, RunsType, RunType
<1>4. steeringQueue' = steeringQueue /\ followUpQueue' = followUpQueue
  BY DEF Settle
<1>5. \A i \in 1..Len(l) : l[i].role # "user"
  <2>1. PICK x : x = Assistant(0, 0, "error")
    OBVIOUS
  <2>2. x.role = "assistant"
    BY <2>1 DEF Assistant
  <2>3. l = <<x>> \/ (l = <<run[r].partial>> /\ run[r].partial.role = "assistant") \/ l = << >>
    BY <1>2, <2>1 DEF Leftover
  <2>4. \A y : y.role = "assistant" => Len(<<y>>) = 1 /\ <<y>>[1].role # "user"
    OBVIOUS
  <2>5. QED BY <2>2, <2>3, <2>4
<1>6. PICK ms : ms = messages \o l
  OBVIOUS
<1>7. \A i, m : i \in UsersIn(ms) /\ m = ms[i].id <=> i \in UsersIn(messages) /\ m = messages[i].id
  <2>1. PICK n \in Nat : n = Len(messages) /\ DOMAIN messages = 1..n
    BY <1>1
  <2>2. /\ DOMAIN ms = 1..(n + Len(l))
        /\ \A i \in 1..n : ms[i] = messages[i]
        /\ \A i \in 1..(n + Len(l)) : i \in 1..n \/ (i - n \in 1..Len(l) /\ ms[i] = l[i - n])
    BY <1>1, <1>6, <2>1, ConcatShape
  <2>3. \A i \in 1..n : i \in 1..(n + Len(l))
    BY <1>2, <2>1
  <2>4. QED BY <1>5, <2>1, <2>2, <2>3 DEF UsersIn
<1>8. Unmoved(Held, Held', Transcript)
  <2>1. /\ \A i, m : UserAt(Held, Transcript, i, m) <=> i \in UsersIn(messages) /\ m = messages[i].id
        /\ \A i, m : UserAt(Held', Transcript, i, m) <=> i \in UsersIn(messages') /\ m = messages'[i].id
    BY HeldPlaces DEF HoldsAsSaid
  <2>2. messages' = ms
    BY <1>2, <1>6
  <2>3. QED BY <1>7, <2>1, <2>2 DEF Unmoved
<1>9. \A p : Unmoved(Held, Held', p)
  <2>1. Quiet(r)
    BY <1>3, SameEventsQuiet
  <2>2. \A p : p \notin {Transcript} => Unmoved(Held, Held', p)
    BY <1>3, <1>4, <2>1, RestUnmoved
  <2>3. QED BY <1>8, <2>2
<1>10. Conserved(Held', ids)
  BY <1>9, NothingMoves
<1>11. QED BY <1>3, <1>10

\* A run begins with empty hands and its prompts on the stream.
LEMMA RunBegins ==
    ASSUME TypeOK, NEW ms \in Seq(Numbers), NEW skip, StartRun(ms, skip)
    PROVE  /\ nextRun \in Runs /\ Others(nextRun) /\ run'[nextRun].at = "poll"
           /\ run'[nextRun].pending = << >> /\ run'[nextRun].steering = << >>
           /\ run'[nextRun].events = Ends(Users(ms))
<1>1. RunsType /\ nextRun \in Runs
  BY DEF TypeOK, RunsType, StartRun
<1>2. PICK t : t = [FreshRun EXCEPT !.at = "poll", !.ctx = messages \o Users(ms), !.skipPoll = skip,
                                    !.events = Ends(Users(ms)), !.consumer = "consuming"]
  OBVIOUS
<1>3. run' = [run EXCEPT ![nextRun] = t]
  BY <1>2 DEF StartRun
<1>4. t.at = "poll" /\ t.pending = << >> /\ t.steering = << >> /\ t.events = Ends(Users(ms))
  BY <1>2 DEF FreshRun
<1>5. QED BY <1>1, <1>3, <1>4 DEF RunsType, Others

\* The messages a run is started with go on its stream.
LEMMA StreamBegins ==
    ASSUME TypeOK, LoopInv, HandsInv, NEW ms \in Seq(Numbers), NEW skip, StartRun(ms, skip)
    PROVE  /\ \A i, m : ~UserAt(Held, Stream(nextRun), i, m)
           /\ \A i, m : UserAt(Held', Stream(nextRun), i, m) <=> NumberAt(ms, i, m)
           /\ run'[nextRun].pending = run[nextRun].pending
           /\ run'[nextRun].steering = run[nextRun].steering
<1>1. /\ nextRun \in Runs /\ run'[nextRun].pending = << >> /\ run'[nextRun].steering = << >>
      /\ run'[nextRun].events = Ends(Users(ms))
  BY RunBegins
<1>2. run[nextRun].at = "idle"
  BY <1>1, BoundsAssumption DEF LoopInv, Phases, Runs
<1>3. run[nextRun].pending = << >> /\ run[nextRun].steering = << >> /\ run[nextRun].events = << >>
  BY <1>1, <1>2 DEF HandsInv, HandsOf
<1>4. /\ \A i, m : UserAt(Held, Stream(nextRun), i, m) <=> UserEnds(run[nextRun].events, i, m)
      /\ \A i, m : UserAt(Held', Stream(nextRun), i, m) <=> UserEnds(run'[nextRun].events, i, m)
  BY <1>1, HeldPlaces DEF HoldsAsSaid
<1>5. \A i, m : ~UserAt(Held, Stream(nextRun), i, m)
  BY <1>3, <1>4, EmptyPlaces
<1>6. \A i, m : UserEnds(Ends(Users(ms)), i, m) <=> NumberAt(ms, i, m)
  <2>1. PICK us \in Seq(MessageType) : us = Users(ms)
    BY UsersType
  <2>2. PICK fs : fs = Ends(us)
    OBVIOUS
  <2>3. DOMAIN fs = DOMAIN ms /\ \A i \in DOMAIN ms : fs[i].message = User(ms[i])
    BY <2>1, <2>2 DEF Ends, Users
  <2>4. \A i \in DOMAIN ms : fs[i].message.role = "user" /\ fs[i].message.id = ms[i]
    <3>1. \A k : User(k).role = "user" /\ User(k).id = k
      BY DEF User
    <3>2. QED BY <2>3, <3>1
  <2>5. \A i, m : UserEnds(fs, i, m) <=> NumberAt(ms, i, m)
    BY <2>3, <2>4 DEF UserEnds, NumberAt
  <2>6. QED BY <2>1, <2>2, <2>5
<1>7. QED BY <1>1, <1>3, <1>4, <1>5, <1>6

WithdrawnInv == withdrawn \subseteq 1..(nextMessage - 1)

\* Starting a run takes its messages from the user or out of a queue.
LEMMA StartMoves ==
    ASSUME TypeOK, LoopInv, HandsInv, WithdrawnInv, Conserved(Held, Sent),
           Prompt \/ ContinueQueued \/ ContinueAsIs
    PROVE  Conserved(Held', Sent')
<1>1. steeringQueue \in Seq(Numbers) /\ followUpQueue \in Seq(Numbers) /\ nextMessage \in Nat /\ nextMessage >= 1
  BY BoundsAssumption DEF TypeOK
<1>2. messages' = messages /\ withdrawn' = withdrawn
  BY DEF Prompt, ContinueQueued, ContinueAsIs
<1>3. CASE Prompt
  <2>1. nextMessage \in Numbers
    BY <1>3, BoundsAssumption DEF Prompt, TypeOK, Numbers
  <2>2. PICK x \in Seq(Numbers) : x = <<nextMessage>>
    <3>1. <<nextMessage>> \in Seq(Numbers)
      BY <2>1
    <3>2. QED BY <3>1
  <2>3. StartRun(x, FALSE) /\ nextMessage' = nextMessage + 1
    BY <1>3, <2>2 DEF Prompt
  <2>4. steeringQueue' = steeringQueue /\ followUpQueue' = followUpQueue
    BY <1>3 DEF Prompt
  <2>5. /\ \A i, m : ~UserAt(Held, Stream(nextRun), i, m)
        /\ \A i, m : UserAt(Held', Stream(nextRun), i, m) <=> NumberAt(x, i, m)
        /\ run'[nextRun].pending = run[nextRun].pending
        /\ run'[nextRun].steering = run[nextRun].steering
    BY <2>3, StreamBegins
  <2>6. \A i, m : NumberAt(x, i, m) <=> i = 1 /\ m = nextMessage
    <3>1. DOMAIN x = {1} /\ x[1] = nextMessage
      BY <2>2
    <3>2. QED BY <3>1 DEF NumberAt
  <2>7. Joins(Held, Held', Stream(nextRun), 1, nextMessage)
    BY <2>5, <2>6 DEF Joins
  <2>8. nextRun \in Runs /\ Others(nextRun)
    BY <2>3, RunBegins
  <2>9. \A p : p \notin {Stream(nextRun)} => Unmoved(Held, Held', p)
    BY <1>2, <2>4, <2>5, <2>8, RestUnmoved
  <2>10. \A p : p # Stream(nextRun) => Unmoved(Held, Held', p)
    BY <2>9
  <2>11. nextMessage \notin Sent /\ Sent' = Sent \cup {nextMessage}
    BY <1>1, <1>2, <2>3 DEF Sent, WithdrawnInv
  <2>12. Conserved(Held', Sent \cup {nextMessage})
    BY <2>7, <2>10, <2>11, OneArrives
  <2>13. QED BY <2>11, <2>12
<1>4. CASE ContinueQueued
  <2>1. Sent' = Sent
    BY <1>2, <1>4 DEF ContinueQueued, Sent
  <2>2. CASE StartRun(Taken(steeringQueue), TRUE) /\ steeringQueue' = Left(steeringQueue)
             /\ followUpQueue' = followUpQueue
    <3>1. PICK x \in Seq(Numbers) : x = Taken(steeringQueue)
      BY <1>1, TakenLeft
    <3>2. steeringQueue' \in Seq(Numbers) /\ steeringQueue = x \o steeringQueue'
      BY <1>1, <2>2, <3>1, TakenLeft
    <3>3. StartRun(x, TRUE)
      BY <2>2, <3>1
    <3>4. /\ \A i, m : ~UserAt(Held, Stream(nextRun), i, m)
          /\ \A i, m : UserAt(Held', Stream(nextRun), i, m) <=> NumberAt(x, i, m)
          /\ run'[nextRun].pending = run[nextRun].pending
          /\ run'[nextRun].steering = run[nextRun].steering
      BY <3>3, StreamBegins
    <3>5. Behind(Held, Held', Stream(nextRun), 0, x)
      BY <3>4, BehindNothing
    <3>6. nextRun \in Runs /\ Others(nextRun)
      BY <3>3, RunBegins
    <3>7. \A p : p \notin {SteeringPlace, Stream(nextRun)} => Unmoved(Held, Held', p)
      BY <1>2, <2>2, <3>4, <3>6, RestUnmoved
    <3>8. \A p : p # SteeringPlace /\ p # Stream(nextRun) => Unmoved(Held, Held', p)
      BY <3>7
    <3>9. /\ \A i, m : UserAt(Held, SteeringPlace, i, m) <=> NumberAt(steeringQueue, i, m)
          /\ \A i, m : UserAt(Held', SteeringPlace, i, m) <=> NumberAt(steeringQueue', i, m)
      BY HeldPlaces DEF HoldsAsSaid
    <3>10. Conserved(Held', Sent)
      BY <3>2, <3>5, <3>8, <3>9, PlacesDiffer, NumbersMove
    <3>11. QED BY <2>1, <3>10
  <2>3. CASE StartRun(Taken(followUpQueue), FALSE) /\ followUpQueue' = Left(followUpQueue)
             /\ steeringQueue' = steeringQueue
    <3>1. PICK x \in Seq(Numbers) : x = Taken(followUpQueue)
      BY <1>1, TakenLeft
    <3>2. followUpQueue' \in Seq(Numbers) /\ followUpQueue = x \o followUpQueue'
      BY <1>1, <2>3, <3>1, TakenLeft
    <3>3. StartRun(x, FALSE)
      BY <2>3, <3>1
    <3>4. /\ \A i, m : ~UserAt(Held, Stream(nextRun), i, m)
          /\ \A i, m : UserAt(Held', Stream(nextRun), i, m) <=> NumberAt(x, i, m)
          /\ run'[nextRun].pending = run[nextRun].pending
          /\ run'[nextRun].steering = run[nextRun].steering
      BY <3>3, StreamBegins
    <3>5. Behind(Held, Held', Stream(nextRun), 0, x)
      BY <3>4, BehindNothing
    <3>6. nextRun \in Runs /\ Others(nextRun)
      BY <3>3, RunBegins
    <3>7. \A p : p \notin {FollowUpPlace, Stream(nextRun)} => Unmoved(Held, Held', p)
      BY <1>2, <2>3, <3>4, <3>6, RestUnmoved
    <3>8. \A p : p # FollowUpPlace /\ p # Stream(nextRun) => Unmoved(Held, Held', p)
      BY <3>7
    <3>9. /\ \A i, m : UserAt(Held, FollowUpPlace, i, m) <=> NumberAt(followUpQueue, i, m)
          /\ \A i, m : UserAt(Held', FollowUpPlace, i, m) <=> NumberAt(followUpQueue', i, m)
      BY HeldPlaces DEF HoldsAsSaid
    <3>10. Conserved(Held', Sent)
      BY <3>2, <3>5, <3>8, <3>9, PlacesDiffer, NumbersMove
    <3>11. QED BY <2>1, <3>10
  <2>4. QED BY <1>4, <2>2, <2>3 DEF ContinueQueued
<1>5. CASE ContinueAsIs
  <2>1. PICK x \in Seq(Numbers) : x = << >>
    <3>1. << >> \in Seq(Numbers)
      OBVIOUS
    <3>2. QED BY <3>1
  <2>2. /\ StartRun(x, FALSE) /\ nextMessage' = nextMessage
        /\ steeringQueue' = steeringQueue /\ followUpQueue' = followUpQueue
    BY <1>5, <2>1 DEF ContinueAsIs
  <2>3. /\ \A i, m : ~UserAt(Held, Stream(nextRun), i, m)
        /\ \A i, m : UserAt(Held', Stream(nextRun), i, m) <=> NumberAt(x, i, m)
        /\ run'[nextRun].pending = run[nextRun].pending
        /\ run'[nextRun].steering = run[nextRun].steering
    BY <2>2, StreamBegins
  <2>4. nextRun \in Runs /\ Others(nextRun)
    BY <2>2, RunBegins
  <2>5. Unmoved(Held, Held', Stream(nextRun))
    BY <2>1, <2>3, EmptyPlaces DEF Unmoved
  <2>6. \A p : p \notin {Stream(nextRun)} => Unmoved(Held, Held', p)
    BY <1>2, <2>2, <2>3, <2>4, RestUnmoved
  <2>7. \A p : Unmoved(Held, Held', p)
    BY <2>5, <2>6
  <2>8. Conserved(Held', Sent)
    BY <2>7, NothingMoves
  <2>9. Sent' = Sent
    BY <1>2, <2>2 DEF Sent
  <2>10. QED BY <2>8, <2>9
<1>6. QED BY <1>3, <1>4, <1>5

\* The user: the runs and the transcript stay as they are.
LEMMA RunsUnmoved ==
    ASSUME run' = run, messages' = messages, NEW moved,
           steeringQueue' = steeringQueue \/ SteeringPlace \in moved,
           followUpQueue' = followUpQueue \/ FollowUpPlace \in moved
    PROVE  \A p : p \notin moved => Unmoved(Held, Held', p)
<1>1. ASSUME NEW p \in {SteeringPlace, FollowUpPlace, Transcript}, p \notin moved
      PROVE  Unmoved(Held, Held', p)
  BY <1>1, LeftAlone
<1>2. ASSUME NEW q \in Runs, NEW p \in {Pending(q), Found(q), Stream(q)}
      PROVE  Unmoved(Held, Held', p)
  BY <1>2, LeftAlone
<1>3. \A p : p \notin Places => Unmoved(Held, Held', p)
  BY LeftAlone
<1>4. QED BY <1>1, <1>2, <1>3, PlacesAre

LEMMA NumberAppended ==
    ASSUME NEW q \in Seq(Numbers), NEW x \in Numbers
    PROVE  \A i, m : NumberAt(Append(q, x), i, m) <=> NumberAt(q, i, m) \/ (i = Len(q) + 1 /\ m = x)
<1>1. PICK n \in Nat : n = Len(q) /\ DOMAIN q = 1..n
  OBVIOUS
<1>2. PICK a : a = Append(q, x)
  OBVIOUS
<1>3. DOMAIN a = 1..(n + 1) /\ a[n + 1] = x /\ \A i \in 1..n : a[i] = q[i]
  BY <1>1, <1>2, AppendProperties
<1>4. (\A i : i \in 1..(n + 1) <=> i \in 1..n \/ i = n + 1) /\ ~(n + 1 \in 1..n)
  BY <1>1
<1>5. \A i, m : NumberAt(a, i, m) <=> NumberAt(q, i, m) \/ (i = n + 1 /\ m = x)
  BY <1>1, <1>3, <1>4 DEF NumberAt
<1>6. QED BY <1>1, <1>2, <1>5

\* The last message of a queue that holds none twice is taken out of it.
LEMMA NumberPopped ==
    ASSUME NEW q \in Seq(Numbers), q # << >>,
           \A i, j, m : NumberAt(q, i, m) /\ NumberAt(q, j, m) => i = j
    PROVE  /\ \A i, m : NumberAt(Front(q), i, m) <=> NumberAt(q, i, m) /\ m # Last(q)
           /\ NumberAt(q, Len(q), Last(q))
<1>1. PICK n \in Nat : n = Len(q) /\ DOMAIN q = 1..n /\ n >= 1
  OBVIOUS
<1>2. PICK f : f = Front(q)
  OBVIOUS
<1>3. f \in Seq(Numbers) /\ Len(f) = n - 1 /\ \A i \in 1..(n - 1) : f[i] = q[i]
  BY <1>1, <1>2, FrontType
<1>4. DOMAIN f = 1..(n - 1)
  BY <1>1, <1>3
<1>5. Last(q) = q[n] /\ n \in 1..n
  BY <1>1 DEF Last
<1>6. \A i : i \in 1..(n - 1) <=> i \in 1..n /\ i # n
  BY <1>1
<1>7. NumberAt(q, n, q[n])
  BY <1>1, <1>5 DEF NumberAt
<1>8. ASSUME NEW i \in 1..n, i # n PROVE q[i] # q[n]
  <2>1. NumberAt(q, i, q[i])
    BY <1>1, <1>8 DEF NumberAt
  <2>2. QED BY <1>7, <1>8, <2>1
<1>9. \A i, m : NumberAt(f, i, m) <=> NumberAt(q, i, m) /\ m # q[n]
  BY <1>1, <1>3, <1>4, <1>6, <1>8 DEF NumberAt
<1>10. QED BY <1>1, <1>2, <1>5, <1>7, <1>9

\* What the user sends, takes back and clears.
LEMMA UserMoves ==
    ASSUME TypeOK, WithdrawnInv, Conserved(Held, Sent),
           Steer \/ FollowUp \/ PopLastSteer \/ PopLastFollowUp \/ ClearAllQueues
    PROVE  Conserved(Held', Sent') /\ WithdrawnInv'
<1>1. steeringQueue \in Seq(Numbers) /\ followUpQueue \in Seq(Numbers) /\ nextMessage \in Nat /\ nextMessage >= 1
  BY BoundsAssumption DEF TypeOK
<1>2. run' = run /\ messages' = messages
  BY DEF Steer, FollowUp, PopLastSteer, PopLastFollowUp, ClearAllQueues, userUnchanged
<1>3. /\ \A p, i, m : UserAt(Held, p, i, m) => m \in Sent
      /\ \A p, q, i, j, m : UserAt(Held, p, i, m) /\ UserAt(Held, q, j, m) => p = q /\ i = j
  BY ConservedIs
<1>4. /\ \A i, m : UserAt(Held, SteeringPlace, i, m) <=> NumberAt(steeringQueue, i, m)
      /\ \A i, m : UserAt(Held', SteeringPlace, i, m) <=> NumberAt(steeringQueue', i, m)
      /\ \A i, m : UserAt(Held, FollowUpPlace, i, m) <=> NumberAt(followUpQueue, i, m)
      /\ \A i, m : UserAt(Held', FollowUpPlace, i, m) <=> NumberAt(followUpQueue', i, m)
  BY HeldPlaces DEF HoldsAsSaid
<1>5. Sent \subseteq 1..(nextMessage - 1)
  BY DEF Sent
<1>6. ASSUME nextMessage' = nextMessage + 1, withdrawn' = withdrawn
      PROVE  nextMessage \notin Sent /\ Sent' = Sent \cup {nextMessage} /\ WithdrawnInv'
  BY <1>1, <1>6 DEF Sent, WithdrawnInv
<1>7. CASE Steer
  <2>1. nextMessage \in Numbers
    BY <1>7, NextMessageType DEF Steer
  <2>2. /\ steeringQueue' = Append(steeringQueue, nextMessage) /\ nextMessage' = nextMessage + 1
        /\ followUpQueue' = followUpQueue /\ withdrawn' = withdrawn
    BY <1>7 DEF Steer
  <2>3. Joins(Held, Held', SteeringPlace, Len(steeringQueue) + 1, nextMessage)
    BY <1>1, <1>4, <2>1, <2>2, NumberAppended DEF Joins
  <2>4. \A p : p \notin {SteeringPlace} => Unmoved(Held, Held', p)
    BY <1>2, <2>2, RunsUnmoved
  <2>5. \A p : p # SteeringPlace => Unmoved(Held, Held', p)
    BY <2>4
  <2>6. nextMessage \notin Sent /\ Sent' = Sent \cup {nextMessage} /\ WithdrawnInv'
    BY <1>6, <2>2
  <2>7. Conserved(Held', Sent \cup {nextMessage})
    BY <2>3, <2>5, <2>6, OneArrives
  <2>8. QED BY <2>6, <2>7
<1>8. CASE FollowUp
  <2>1. nextMessage \in Numbers
    BY <1>8, NextMessageType DEF FollowUp
  <2>2. /\ followUpQueue' = Append(followUpQueue, nextMessage) /\ nextMessage' = nextMessage + 1
        /\ steeringQueue' = steeringQueue /\ withdrawn' = withdrawn
    BY <1>8 DEF FollowUp
  <2>3. Joins(Held, Held', FollowUpPlace, Len(followUpQueue) + 1, nextMessage)
    BY <1>1, <1>4, <2>1, <2>2, NumberAppended DEF Joins
  <2>4. \A p : p \notin {FollowUpPlace} => Unmoved(Held, Held', p)
    BY <1>2, <2>2, RunsUnmoved
  <2>5. \A p : p # FollowUpPlace => Unmoved(Held, Held', p)
    BY <2>4
  <2>6. nextMessage \notin Sent /\ Sent' = Sent \cup {nextMessage} /\ WithdrawnInv'
    BY <1>6, <2>2
  <2>7. Conserved(Held', Sent \cup {nextMessage})
    BY <2>3, <2>5, <2>6, OneArrives
  <2>8. QED BY <2>6, <2>7
<1>9. ASSUME NEW gone, gone \subseteq Sent, withdrawn' = withdrawn \cup gone, nextMessage' = nextMessage
      PROVE  Sent' = Sent \ gone /\ WithdrawnInv'
  BY <1>5, <1>9 DEF Sent, WithdrawnInv
<1>10. CASE PopLastSteer
  <2>1. PICK x : x = Last(steeringQueue)
    OBVIOUS
  <2>2. /\ steeringQueue # << >> /\ steeringQueue' = Front(steeringQueue)
        /\ withdrawn' = withdrawn \cup {x} /\ nextMessage' = nextMessage
        /\ followUpQueue' = followUpQueue
    BY <1>10, <2>1 DEF PopLastSteer
  <2>3. \A i, j, m : NumberAt(steeringQueue, i, m) /\ NumberAt(steeringQueue, j, m) => i = j
    BY <1>3, <1>4
  <2>4. /\ \A i, m : NumberAt(steeringQueue', i, m) <=> NumberAt(steeringQueue, i, m) /\ m # x
        /\ NumberAt(steeringQueue, Len(steeringQueue), x)
    BY <1>1, <2>1, <2>2, <2>3, NumberPopped
  <2>5. UserAt(Held, SteeringPlace, Len(steeringQueue), x)
    BY <1>4, <2>4
  <2>6. \A p : p \notin {SteeringPlace} => Unmoved(Held, Held', p)
    BY <1>2, <2>2, RunsUnmoved
  <2>7. ASSUME NEW p, NEW i, NEW m
        PROVE  UserAt(Held', p, i, m) <=> UserAt(Held, p, i, m) /\ m \notin {x}
    <3>1. CASE p = SteeringPlace
      BY <1>4, <2>4, <3>1
    <3>2. CASE p # SteeringPlace
      <4>1. UserAt(Held', p, i, m) <=> UserAt(Held, p, i, m)
        BY <2>6, <3>2 DEF Unmoved
      <4>2. UserAt(Held, p, i, m) => m # x
        BY <1>3, <2>5, <3>2
      <4>3. QED BY <4>1, <4>2
    <3>3. QED BY <3>1, <3>2
  <2>8. Conserved(Held', Sent \ {x})
    BY <2>7, SomeLeave
  <2>9. {x} \subseteq Sent
    BY <1>3, <2>5
  <2>10. QED BY <1>9, <2>2, <2>8, <2>9
<1>11. CASE PopLastFollowUp
  <2>1. PICK x : x = Last(followUpQueue)
    OBVIOUS
  <2>2. /\ followUpQueue # << >> /\ followUpQueue' = Front(followUpQueue)
        /\ withdrawn' = withdrawn \cup {x} /\ nextMessage' = nextMessage
        /\ steeringQueue' = steeringQueue
    BY <1>11, <2>1 DEF PopLastFollowUp
  <2>3. \A i, j, m : NumberAt(followUpQueue, i, m) /\ NumberAt(followUpQueue, j, m) => i = j
    BY <1>3, <1>4
  <2>4. /\ \A i, m : NumberAt(followUpQueue', i, m) <=> NumberAt(followUpQueue, i, m) /\ m # x
        /\ NumberAt(followUpQueue, Len(followUpQueue), x)
    BY <1>1, <2>1, <2>2, <2>3, NumberPopped
  <2>5. UserAt(Held, FollowUpPlace, Len(followUpQueue), x)
    BY <1>4, <2>4
  <2>6. \A p : p \notin {FollowUpPlace} => Unmoved(Held, Held', p)
    BY <1>2, <2>2, RunsUnmoved
  <2>7. ASSUME NEW p, NEW i, NEW m
        PROVE  UserAt(Held', p, i, m) <=> UserAt(Held, p, i, m) /\ m \notin {x}
    <3>1. CASE p = FollowUpPlace
      BY <1>4, <2>4, <3>1
    <3>2. CASE p # FollowUpPlace
      <4>1. UserAt(Held', p, i, m) <=> UserAt(Held, p, i, m)
        BY <2>6, <3>2 DEF Unmoved
      <4>2. UserAt(Held, p, i, m) => m # x
        BY <1>3, <2>5, <3>2
      <4>3. QED BY <4>1, <4>2
    <3>3. QED BY <3>1, <3>2
  <2>8. Conserved(Held', Sent \ {x})
    BY <2>7, SomeLeave
  <2>9. {x} \subseteq Sent
    BY <1>3, <2>5
  <2>10. QED BY <1>9, <2>2, <2>8, <2>9
<1>12. CASE ClearAllQueues
  <2>1. PICK gone : gone = ToSet(steeringQueue \o followUpQueue)
    OBVIOUS
  <2>2. /\ steeringQueue' = << >> /\ followUpQueue' = << >>
        /\ withdrawn' = withdrawn \cup gone /\ nextMessage' = nextMessage
    BY <1>12, <2>1 DEF ClearAllQueues
  <2>3. \A m : m \in gone <=> \E i : NumberAt(steeringQueue, i, m) \/ NumberAt(followUpQueue, i, m)
    <3>1. PICK q : q = steeringQueue \o followUpQueue
      OBVIOUS
    <3>2. PICK n \in Nat : n = Len(steeringQueue) /\ DOMAIN steeringQueue = 1..n
      BY <1>1
    <3>3. PICK k \in Nat : k = Len(followUpQueue) /\ DOMAIN followUpQueue = 1..k
      BY <1>1
    <3>4. /\ DOMAIN q = 1..(n + k)
          /\ \A i \in 1..n : q[i] = steeringQueue[i]
          /\ \A i \in 1..k : q[n + i] = followUpQueue[i]
          /\ \A i \in 1..(n + k) :
                \/ i \in 1..n /\ q[i] = steeringQueue[i]
                \/ i - n \in 1..k /\ q[i] = followUpQueue[i - n]
      BY <1>1, <3>1, <3>2, <3>3, ConcatShape
    <3>5. (\A i \in 1..n : i \in 1..(n + k)) /\ (\A i \in 1..k : n + i \in 1..(n + k))
      OBVIOUS
    <3>6. ASSUME NEW m \in gone PROVE \E i : NumberAt(steeringQueue, i, m) \/ NumberAt(followUpQueue, i, m)
      <4>1. PICK i \in 1..(n + k) : m = q[i]
        BY <2>1, <3>1, <3>4 DEF ToSet
      <4>2. NumberAt(steeringQueue, i, m) \/ NumberAt(followUpQueue, i - n, m)
        BY <3>2, <3>3, <3>4, <4>1 DEF NumberAt
      <4>3. QED BY <4>2
    <3>7. ASSUME NEW m, NEW i, NumberAt(steeringQueue, i, m) PROVE m \in gone
      <4>1. i \in DOMAIN q /\ q[i] = m
        BY <3>2, <3>4, <3>5, <3>7 DEF NumberAt
      <4>2. QED BY <2>1, <3>1, <4>1 DEF ToSet
    <3>8. ASSUME NEW m, NEW i, NumberAt(followUpQueue, i, m) PROVE m \in gone
      <4>1. n + i \in DOMAIN q /\ q[n + i] = m
        BY <3>3, <3>4, <3>5, <3>8 DEF NumberAt
      <4>2. QED BY <2>1, <3>1, <4>1 DEF ToSet
    <3>9. QED BY <3>6, <3>7, <3>8
  <2>4. \A p : p \notin {SteeringPlace, FollowUpPlace} => Unmoved(Held, Held', p)
    BY <1>2, RunsUnmoved
  <2>5. ASSUME NEW p, NEW i, NEW m
        PROVE  UserAt(Held', p, i, m) <=> UserAt(Held, p, i, m) /\ m \notin gone
    <3>1. CASE p = SteeringPlace \/ p = FollowUpPlace
      <4>1. ~UserAt(Held', p, i, m)
        BY <1>4, <2>2, <3>1, EmptyPlaces
      <4>2. UserAt(Held, p, i, m) => m \in gone
        BY <1>4, <2>3, <3>1
      <4>3. QED BY <4>1, <4>2
    <3>2. CASE p # SteeringPlace /\ p # FollowUpPlace
      <4>1. UserAt(Held', p, i, m) <=> UserAt(Held, p, i, m)
        BY <2>4, <3>2 DEF Unmoved
      <4>2. ASSUME UserAt(Held, p, i, m), m \in gone PROVE FALSE
        <5>1. PICK j : UserAt(Held, SteeringPlace, j, m) \/ UserAt(Held, FollowUpPlace, j, m)
          BY <1>4, <2>3, <4>2
        <5>2. QED BY <1>3, <3>2, <4>2, <5>1
      <4>3. QED BY <4>1, <4>2
    <3>3. QED BY <3>1, <3>2
  <2>6. Conserved(Held', Sent \ gone)
    BY <2>5, SomeLeave
  <2>7. gone \subseteq Sent
    BY <1>3, <1>4, <2>3
  <2>8. QED BY <1>9, <2>2, <2>6, <2>7
<1>13. QED BY <1>7, <1>8, <1>10, <1>11, <1>12

-----------------------------------------------------------------------------
\* Events put behind a stream for the loop never show a user's message but as
\* a message_end, and the consumer takes them from the front.
StreamOk(es) == \A i \in 1..Len(es) : es[i].kind # "end" => es[i].message.role # "user"

LEMMA StreamOkKept ==
    ASSUME NEW es \in Seq(EventType), StreamOk(es)
    PROVE  /\ \A fs : NoUsers(fs) => StreamOk(es \o fs)
           /\ \A ns \in Seq(MessageType) : StreamOk(es \o Ends(ns))
           /\ es # << >> => StreamOk(Tail(es))
<1>1. ASSUME NEW fs \in Seq(EventType), StreamOk(fs) PROVE StreamOk(es \o fs)
  <2>1. PICK c : c = es \o fs
    OBVIOUS
  <2>2. /\ Len(c) = Len(es) + Len(fs)
        /\ \A i \in 1..(Len(es) + Len(fs)) :
              \/ i \in 1..Len(es) /\ c[i] = es[i]
              \/ i - Len(es) \in 1..Len(fs) /\ c[i] = fs[i - Len(es)]
    BY <2>1, ConcatShape
  <2>3. StreamOk(c)
    BY <1>1, <2>2 DEF StreamOk
  <2>4. QED BY <2>1, <2>3
<1>2. ASSUME NEW fs, NoUsers(fs) PROVE StreamOk(es \o fs)
  <2>1. fs \in Seq(EventType) /\ StreamOk(fs)
    BY <1>2 DEF NoUsers, StreamOk
  <2>2. QED BY <1>1, <2>1
<1>3. ASSUME NEW ns \in Seq(MessageType) PROVE StreamOk(es \o Ends(ns))
  <2>1. Ends(ns) \in Seq(EventType) /\ StreamOk(Ends(ns))
    BY EndsType DEF StreamOk
  <2>2. QED BY <1>1, <2>1
<1>4. ASSUME es # << >> PROVE StreamOk(Tail(es))
  <2>1. PICK t : t = Tail(es)
    OBVIOUS
  <2>2. PICK k \in Nat : k = Len(es) /\ k >= 1
    BY <1>4
  <2>3. Len(t) = k - 1 /\ \A i \in 1..(k - 1) : t[i] = es[i + 1] /\ i + 1 \in 1..k
    BY <1>4, <2>1, <2>2
  <2>4. StreamOk(t)
    BY <2>2, <2>3 DEF StreamOk
  <2>5. QED BY <2>1, <2>4
<1>5. QED BY <1>2, <1>3, <1>4

LEMMA HandsAre ==
    \A r : HandsOf(r) <=> /\ run[r].at # "turn" => run[r].pending = << >>
                          /\ run[r].at # "tools" => run[r].steering = << >>
                          /\ run[r].at = "idle" => run[r].events = << >>
                          /\ StreamOk(run[r].events)
BY DEF HandsOf, StreamOk

ConservedInv == HandsInv /\ WithdrawnInv /\ Conserved(Held, Sent)

\* What a step of a run does to it.
LEMMA RunConserves ==
    ASSUME TypeOK, LoopInv, ConservedInv, NEW r \in Runs, LoopStep(r) \/ Consume(r) \/ Settle(r)
    PROVE  Conserved(Held', Sent) /\ HandsOf(r)' /\ Others(r)
<1>1. PICK es \in Seq(EventType) : es = run[r].events
  <2>1. run[r].events \in Seq(EventType)
    BY RunFields DEF TypeOK
  <2>2. QED BY <2>1
<1>2. /\ Conserved(Held, Sent) /\ HandsOf(r) /\ StreamOk(es)
      /\ run[r].at # "turn" => run[r].pending = << >>
      /\ run[r].at # "tools" => run[r].steering = << >>
      /\ run[r].at = "idle" => run[r].events = << >>
  BY <1>1, HandsAre DEF ConservedInv, HandsInv
<1>3. Quiet(r) => StreamOk(run'[r].events)
  BY <1>1, <1>2, StreamOkKept DEF Quiet
<1>4. ASSUME run'[r].at # "turn" => run'[r].pending = << >>,
             run'[r].at # "tools" => run'[r].steering = << >>,
             run'[r].at # "idle", StreamOk(run'[r].events)
      PROVE  HandsOf(r)'
  BY <1>4 DEF HandsOf, StreamOk
<1>5. CASE PollSteering(r)
  <2>1. Others(r) /\ Quiet(r) /\ run[r].at = "poll" /\ run'[r].at \in {"turn", "yield"}
    BY <1>5, PollSteeringShape, SameEventsQuiet
  <2>2. /\ Conserved(Held', Sent) /\ run'[r].steering = run[r].steering
        /\ run'[r].at = "yield" => run'[r].pending = << >>
    BY <1>2, <1>5, PollMoves
  <2>3. HandsOf(r)'
    BY <1>2, <1>3, <1>4, <2>1, <2>2
  <2>4. QED BY <2>1, <2>2, <2>3
<1>6. CASE BeginTurn(r)
  <2>1. PICK ms \in Seq(Numbers) : run'[r].events = run[r].events \o Ends(Users(ms))
    BY <1>6, BeginTurnShape
  <2>2. Others(r) /\ run[r].at = "turn" /\ run'[r].at = "request"
    BY <1>6, BeginTurnShape
  <2>3. Users(ms) \in Seq(MessageType)
    BY UsersType
  <2>4. StreamOk(run'[r].events)
    BY <1>1, <1>2, <2>1, <2>3, StreamOkKept
  <2>5. Conserved(Held', Sent) /\ run'[r].pending = << >> /\ run'[r].steering = run[r].steering
    BY <1>2, <1>6, BeginMoves
  <2>6. HandsOf(r)'
    BY <1>2, <1>4, <2>2, <2>4, <2>5
  <2>7. QED BY <2>2, <2>5, <2>6
<1>7. CASE OpenResponse(r) \/ CompleteResponse(r) \/ AbortResponse(r) \/ FailResponse(r) \/ LeakResponse(r)
  <2>1. LoopStep(r)
    BY <1>7 DEF LoopStep
  <2>2. Others(r) /\ Phases(r)'
    BY <2>1, PhaseStep
  <2>3. run[r].at \in {"request", "streaming"}
    BY <1>7 DEF OpenResponse, CompleteResponse, AbortResponse, FailResponse, LeakResponse
  <2>4. /\ Conserved(Held', Sent) /\ Quiet(r)
        /\ run'[r].pending = run[r].pending /\ run'[r].steering = run[r].steering
    BY <1>2, <1>7, ResponseMoves
  <2>5. run[r].pending = << >> /\ run[r].steering = << >>
    BY <1>2, <2>3
  <2>6. run'[r].at # "idle"
    <3>1. run[r].consumer # "none" /\ run'[r].consumer = run[r].consumer
      BY <2>1, <2>3, PhaseStep DEF LoopInv, Phases, SameConsumer
    <3>2. QED BY <2>2, <3>1 DEF Phases
  <2>7. HandsOf(r)'
    BY <1>3, <1>4, <2>4, <2>5, <2>6
  <2>8. QED BY <2>2, <2>4, <2>7
<1>8. CASE AnswerCall(r)
  <2>1. Others(r) /\ run[r].at = "tools" /\ run'[r].at = "tools"
    BY <1>8, AnswerCallShape
  <2>2. Conserved(Held', Sent) /\ run'[r].pending = run[r].pending /\ Quiet(r)
    BY <1>2, <1>8, AnswerMoves
  <2>3. HandsOf(r)'
    BY <1>2, <1>3, <1>4, <2>1, <2>2
  <2>4. QED BY <2>1, <2>2, <2>3
<1>9. CASE EndTools(r)
  <2>1. Others(r) /\ Quiet(r) /\ run'[r].at \in {"turn", "poll"}
    BY <1>9, EndToolsShape, SameEventsQuiet
  <2>2. /\ Conserved(Held', Sent) /\ run'[r].steering = << >>
        /\ run'[r].at # "turn" => run'[r].pending = << >>
    BY <1>2, <1>9, EndToolsMoves
  <2>3. HandsOf(r)'
    BY <1>3, <1>4, <2>1, <2>2
  <2>4. QED BY <2>1, <2>2, <2>3
<1>10. CASE Yield(r)
  <2>1. Others(r) /\ run[r].at = "yield" /\ run'[r].at \in {"turn", "ended"}
    BY <1>10, YieldShape
  <2>2. /\ Conserved(Held', Sent) /\ run'[r].steering = run[r].steering /\ Quiet(r)
        /\ run'[r].at # "turn" => run'[r].pending = << >>
    BY <1>2, <1>10, YieldMoves
  <2>3. HandsOf(r)'
    BY <1>2, <1>3, <1>4, <2>1, <2>2
  <2>4. QED BY <2>1, <2>2, <2>3
<1>11. CASE Consume(r)
  <2>1. /\ Others(r) /\ es # << >> /\ run'[r].events = Tail(es) /\ run'[r].at = run[r].at
        /\ run[r].consumer = "consuming"
    BY <1>1, <1>11, ConsumeShape DEF SameLoop
  <2>2. /\ Conserved(Held', Sent)
        /\ run'[r].pending = run[r].pending /\ run'[r].steering = run[r].steering
    BY <1>2, <1>11, ConsumeMoves
  <2>3. run'[r].at # "idle"
    BY <2>1 DEF LoopInv, Phases
  <2>4. StreamOk(run'[r].events)
    BY <1>2, <2>1, StreamOkKept
  <2>5. HandsOf(r)'
    BY <1>2, <1>4, <2>1, <2>2, <2>3, <2>4
  <2>6. QED BY <2>1, <2>2, <2>5
<1>12. CASE Settle(r)
  <2>1. Others(r) /\ run'[r].at = run[r].at /\ run[r].consumer = "consuming"
    BY <1>12, SettleShape DEF SameLoop
  <2>2. /\ Conserved(Held', Sent) /\ run'[r].events = run[r].events
        /\ run'[r].pending = run[r].pending /\ run'[r].steering = run[r].steering
    BY <1>2, <1>12, SettleMoves
  <2>3. run'[r].at # "idle"
    BY <2>1 DEF LoopInv, Phases
  <2>4. StreamOk(run'[r].events)
    BY <1>1, <1>2, <2>2
  <2>5. HandsOf(r)'
    BY <1>2, <1>4, <2>1, <2>2, <2>3, <2>4
  <2>6. QED BY <2>1, <2>2, <2>5
<1>13. QED BY <1>5, <1>6, <1>7, <1>8, <1>9, <1>10, <1>11, <1>12 DEF LoopStep

LEMMA ConservedStep ==
    ASSUME TypeOK, LoopInv, ConservedInv, [Next]_vars
    PROVE  ConservedInv'
<1>1. HandsInv /\ WithdrawnInv /\ Conserved(Held, Sent)
  BY DEF ConservedInv
<1>2. ASSUME NEW r \in Runs, LoopStep(r) \/ Consume(r) \/ Settle(r) PROVE ConservedInv'
  <2>1. Conserved(Held', Sent) /\ HandsOf(r)' /\ Others(r)
    BY <1>2, RunConserves
  <2>2. nextMessage' = nextMessage /\ withdrawn' = withdrawn
    BY <1>2 DEF LoopStep, PollSteering, BeginTurn, OpenResponse, CompleteResponse, AbortResponse, FailResponse,
       LeakResponse, AnswerCall, EndTools, Yield, loopUnchanged, Consume, Settle
  <2>3. HandsInv'
    <3>1. \A q \in Runs : q # r => HandsOf(q)'
      BY <1>1, <2>1 DEF HandsInv, HandsOf, Others
    <3>2. QED BY <2>1, <3>1 DEF HandsInv
  <2>4. WithdrawnInv' /\ Sent' = Sent
    BY <1>1, <2>2 DEF WithdrawnInv, Sent
  <2>5. QED BY <2>1, <2>3, <2>4 DEF ConservedInv
<1>3. CASE Prompt \/ ContinueQueued \/ ContinueAsIs
  <2>1. Conserved(Held', Sent')
    BY <1>1, <1>3, StartMoves
  <2>2. WithdrawnInv'
    <3>1. withdrawn' = withdrawn /\ (nextMessage' = nextMessage \/ nextMessage' = nextMessage + 1)
      BY <1>3 DEF Prompt, ContinueQueued, ContinueAsIs
    <3>2. nextMessage \in Nat
      BY BoundsAssumption DEF TypeOK
    <3>3. QED BY <1>1, <3>1, <3>2 DEF WithdrawnInv
  <2>3. PICK ms \in Seq(Numbers), skip \in BOOLEAN : StartRun(ms, skip)
    <3>1. CASE Prompt
      <4>1. nextMessage \in Numbers
        BY <3>1, NextMessageType DEF Prompt
      <4>2. <<nextMessage>> \in Seq(Numbers)
        BY <4>1
      <4>3. QED BY <3>1, <4>2 DEF Prompt
    <3>2. CASE ContinueQueued
      <4>1. Taken(steeringQueue) \in Seq(Numbers) /\ Taken(followUpQueue) \in Seq(Numbers)
        BY TakenType DEF TypeOK
      <4>2. QED BY <3>2, <4>1 DEF ContinueQueued
    <3>3. CASE ContinueAsIs
      <4>1. << >> \in Seq(Numbers)
        OBVIOUS
      <4>2. QED BY <3>3, <4>1 DEF ContinueAsIs
    <3>4. QED BY <1>3, <3>1, <3>2, <3>3
  <2>4. PICK r \in Runs : r = nextRun
    BY <2>3, RunBegins
  <2>5. /\ Others(r) /\ run'[r].at = "poll" /\ run'[r].pending = << >>
        /\ run'[r].steering = << >> /\ run'[r].events = Ends(Users(ms))
    BY <2>3, <2>4, RunBegins
  <2>6. HandsOf(r)'
    <3>1. PICK fs : fs = Ends(Users(ms))
      OBVIOUS
    <3>2. StreamOk(fs)
      <4>1. \A i \in 1..Len(Ends(Users(ms))) : Ends(Users(ms))[i].kind = "end"
        BY UsersType, EndsType
      <4>2. QED BY <3>1, <4>1 DEF StreamOk
    <3>3. /\ run'[r].pending = << >> /\ run'[r].steering = << >>
          /\ run'[r].at = "poll" /\ run'[r].events = fs
      BY <2>5, <3>1
    <3>4. QED BY <3>2, <3>3 DEF HandsOf, StreamOk
  <2>7. \A q \in Runs : q # r => HandsOf(q)'
    BY <1>1, <2>5 DEF ConservedInv, HandsInv, HandsOf, Others
  <2>8. HandsInv'
    <3>1. ASSUME NEW q \in Runs PROVE HandsOf(q)'
      <4>1. CASE q = r
        BY <2>6, <4>1
      <4>2. CASE q # r
        BY <2>7, <4>2
      <4>3. QED BY <4>1, <4>2
    <3>2. QED BY <3>1 DEF HandsInv
  <2>9. QED BY <2>1, <2>2, <2>8 DEF ConservedInv
<1>4. CASE Steer \/ FollowUp \/ PopLastSteer \/ PopLastFollowUp \/ ClearAllQueues
  <2>1. Conserved(Held', Sent') /\ WithdrawnInv'
    BY <1>1, <1>4, UserMoves
  <2>2. run' = run
    BY <1>4 DEF Steer, FollowUp, PopLastSteer, PopLastFollowUp, ClearAllQueues, userUnchanged
  <2>3. HandsInv'
    BY <1>1, <2>2 DEF HandsInv, HandsOf
  <2>4. QED BY <2>1, <2>3 DEF ConservedInv
<1>5. CASE Abort \/ UNCHANGED vars
  <2>1. /\ run' = run /\ messages' = messages /\ steeringQueue' = steeringQueue
        /\ followUpQueue' = followUpQueue /\ nextMessage' = nextMessage /\ withdrawn' = withdrawn
    BY <1>5 DEF Abort, userUnchanged
  <2>2. Held' = Held
    BY <2>1 DEF Held
  <2>3. QED BY <1>1, <2>1, <2>2 DEF ConservedInv, HandsInv, HandsOf, WithdrawnInv, Sent
<1>6. QED BY <1>2, <1>3, <1>4, <1>5 DEF Next, Idle

LEMMA ConservedInit == Init => ConservedInv
<1>1. SUFFICES ASSUME Init PROVE ConservedInv
  OBVIOUS
<1>2. /\ \A r \in Runs : run[r] = FreshRun
      /\ messages = << >> /\ steeringQueue = << >> /\ followUpQueue = << >>
      /\ nextMessage = 1 /\ withdrawn = {}
  <2>1. run = [r \in Runs |-> FreshRun]
    BY <1>1 DEF Init
  <2>2. \A r \in Runs : run[r] = FreshRun
    BY <2>1
  <2>3. /\ messages = << >> /\ steeringQueue = << >> /\ followUpQueue = << >>
        /\ nextMessage = 1 /\ withdrawn = {}
    BY <1>1 DEF Init
  <2>4. QED BY <2>2, <2>3
<1>3. \A r \in Runs : run[r].pending = << >> /\ run[r].steering = << >> /\ run[r].events = << >>
  BY <1>2 DEF FreshRun
<1>4. HandsInv /\ WithdrawnInv /\ Sent = {}
  BY <1>2, <1>3 DEF HandsInv, HandsOf, WithdrawnInv, Sent
<1>5. \A p, i, m : ~UserAt(Held, p, i, m)
  <2>1. PICK h : h = Held
    OBVIOUS
  <2>2. HoldsAsSaid(h, run, messages, steeringQueue, followUpQueue)
    BY <2>1, HeldPlaces
  <2>3. ASSUME NEW p, NEW i, NEW m, UserAt(h, p, i, m) PROVE FALSE
    <3>1. p \in Places
      BY <2>2, <2>3 DEF HoldsAsSaid, UserAt
    <3>2. CASE p \in {SteeringPlace, FollowUpPlace}
      BY <1>2, <2>2, <2>3, <3>2, EmptyPlaces DEF HoldsAsSaid
    <3>3. CASE p = Transcript
      BY <1>2, <2>2, <2>3, <3>3 DEF HoldsAsSaid, UsersIn
    <3>4. ASSUME NEW r \in Runs, p \in {Pending(r), Found(r), Stream(r)} PROVE FALSE
      BY <1>3, <2>2, <2>3, <3>4, EmptyPlaces DEF HoldsAsSaid
    <3>5. QED BY <3>1, <3>2, <3>3, <3>4, PlacesAre
  <2>4. QED BY <2>1, <2>3
<1>6. Conserved(Held, {})
  BY <1>5, ConservedIs
<1>7. QED BY <1>4, <1>6 DEF ConservedInv

\* No message of the user is lost or delivered twice, whoever polls, starts,
\* interrupts, aborts or withdraws when (MessagesConserved).
THEOREM MessagesAreConserved == Spec => []MessagesConserved
<1>1. ConservedInv => MessagesConserved
  BY DEF ConservedInv, MessagesConserved, Sent
<1>2. TypeOK /\ LoopInv /\ ConservedInv /\ [Next]_vars => ConservedInv'
  BY ConservedStep
<1> HIDE DEF vars, queues, agentVars, counters
<1>3. QED BY <1>1, <1>2, ConservedInit, TypeAndLoop, PTL DEF Spec
=============================================================================

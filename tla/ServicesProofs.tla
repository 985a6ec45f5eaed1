---------------------------- MODULE ServicesProofs ----------------------------
(***************************************************************************)
(* Proofs about the parts of Services, for every value of the constants.   *)
(* A part moves alone: what holds of a part's own steps holds of the sum.  *)
(***************************************************************************)
EXTENDS Services, WorkerLoopProofs, FiniteSetTheorems, WellFoundedInduction

-----------------------------------------------------------------------------
(* Induction, and the functions defined by it. *)

LEMMA LeastNatural ==
    ASSUME NEW T, T \subseteq Nat, T # {}
    PROVE  \E x \in T : \A y \in T : x <= y
<1> DEFINE R == OpToRel(<, Nat)
<1>1. IsWellFoundedOn(R, Nat)
    BY NatLessThanWellFounded
<1>2. \A x, y \in Nat : x < y => <<x, y>> \in R
    BY DEF OpToRel
<1> HIDE DEF R
<1>3. PICK x \in T : \A y \in T : ~(<<y, x>> \in R)
    BY <1>1, WFMin
<1>4. ASSUME NEW y \in T PROVE x <= y
    <2>1. x \in Nat /\ y \in Nat /\ ~(y < x)
        BY <1>2, <1>3
    <2> QED BY <2>1
<1> QED BY <1>4

\* A set that holds 0 and every successor holds every number.
LEMMA NatSetInduction ==
    ASSUME NEW S, 0 \in S, \A n \in Nat : n \in S => n + 1 \in S
    PROVE  Nat \subseteq S
<1> DEFINE T == Nat \ S
<1> SUFFICES ASSUME T # {} PROVE FALSE
    OBVIOUS
<1>1. PICK x \in T : \A y \in T : x <= y
    BY LeastNatural
<1>2. x \in Nat /\ x # 0 /\ x - 1 \in Nat /\ ~(x <= x - 1)
    OBVIOUS
<1>3. x - 1 \in S
    BY <1>1, <1>2
<1>4. (x - 1) + 1 \in S
    BY <1>2, <1>3
<1> QED BY <1>2, <1>4

\* A walk from a base by given steps exists, as far as one likes.
LEMMA WalkExists ==
    ASSUME NEW X, NEW base \in X, NEW k \in Nat, NEW step \in [1..k -> [X -> X]]
    PROVE  \E f \in [0..k -> X] : f[0] = base /\ \A n \in 1..k : f[n] = step[n][f[n - 1]]
<1> DEFINE Upto(f, m) == /\ f \in [0..m -> X] /\ f[0] = base
                         /\ \A n \in 1..m : f[n] = step[n][f[n - 1]]
           S == {m \in Nat : m <= k => \E f : Upto(f, m)}
<1>1. 0 \in S
    <2>1. Upto([n \in 0..0 |-> base], 0)
        OBVIOUS
    <2> HIDE DEF Upto
    <2> QED BY <2>1
<1>2. ASSUME NEW m \in Nat, m \in S PROVE m + 1 \in S
    <2> SUFFICES ASSUME m + 1 <= k PROVE \E f : Upto(f, m + 1)
        BY DEF S
    <2>1. PICK f : Upto(f, m)
        BY <1>2
    <2> DEFINE g == [n \in 0..(m + 1) |-> IF n = m + 1 THEN step[m + 1][f[m]] ELSE f[n]]
    <2>2. f[m] \in X /\ step[m + 1] \in [X -> X]
        BY <2>1
    <2>3. step[m + 1][f[m]] \in X
        BY <2>2
    <2>4. g \in [0..(m + 1) -> X] /\ g[0] = base
        BY <2>1, <2>3
    <2>5. ASSUME NEW n \in 1..(m + 1) PROVE g[n] = step[n][g[n - 1]]
        <3>1. CASE n = m + 1
            <4>1. g[n] = step[n][f[m]] /\ n - 1 = m /\ g[m] = f[m]
                BY <3>1
            <4> QED BY <4>1
        <3>2. CASE n \in 1..m
            <4>1. g[n] = f[n] /\ g[n - 1] = f[n - 1]
                BY <3>2
            <4> QED BY <2>1, <3>2, <4>1
        <3> QED BY <3>1, <3>2
    <2>6. Upto(g, m + 1)
        BY <2>4, <2>5
    <2> HIDE DEF g, Upto
    <2> QED BY <2>6
<1> HIDE DEF S
<1>3. Nat \subseteq S
    BY <1>1, <1>2, NatSetInduction
<1>4. k \in S
    BY <1>3
<1> QED BY <1>4 DEF S

LEMMA Appended ==
    ASSUME NEW X, NEW v \in Seq(X), NEW d \in X
    PROVE  LET w == Append(v, d) IN
           /\ w \in Seq(X)
           /\ Len(w) = Len(v) + 1 /\ Len(v) \in Nat
           /\ \A i \in 1..Len(v) : w[i] = v[i]
           /\ w[Len(v) + 1] = d
           /\ DOMAIN v = 1..Len(v) /\ DOMAIN w = 1..Len(v) + 1
    OBVIOUS

-----------------------------------------------------------------------------
(* Sources: which documents of a listing are kept, and how many. *)

\* The first occurrences of the members of a set: distinct, and no other document.
LEMMA UniqueDocs ==
    ASSUME NEW s \in Seq(Docs), NEW S
    PROVE  LET u == Ask!rankedUniqueDocIds(s, S) IN
           /\ u \in Seq(Docs)
           /\ IsInjective(u)
           /\ Ask!ToSet(u) = Ask!ToSet(s) \cap S
<1> DEFINE k == Len(s)
           Step(v, n) == IF s[n] \in S \ Ask!ToSet(v) THEN Append(v, s[n]) ELSE v
           Out(f) == f = [n \in 0..k |-> IF n = 0 THEN <<>> ELSE Step(f[n - 1], n)]
           out == CHOOSE f : Out(f)
           step == [n \in 1..k |-> [v \in Seq(Docs) |-> Step(v, n)]]
<1>1. Ask!rankedUniqueDocIds(s, S) = out[k]
    BY DEF Ask!rankedUniqueDocIds
<1>2. k \in Nat /\ DOMAIN s = 1..k /\ \A n \in 1..k : s[n] \in Docs
    OBVIOUS
<1>3. \A n \in 1..k : \A v \in Seq(Docs) : Step(v, n) \in Seq(Docs)
    BY <1>2
<1> HIDE DEF Step, k
<1>4. step \in [1..k -> [Seq(Docs) -> Seq(Docs)]]
    BY <1>3
<1> DEFINE X == Seq(Docs)
           base == <<>>
<1>5. PICK g \in [0..k -> X] :
          g[0] = base /\ \A n \in 1..k : g[n] = step[n][g[n - 1]]
    <2>1. base \in X /\ step \in [1..k -> [X -> X]]
        BY <1>4
    <2>2. k \in Nat
        BY <1>2
    <2> HIDE DEF step, X, base
    <2> QED BY <2>1, <2>2, WalkExists
<1>6. ASSUME NEW n \in 1..k PROVE g[n] = Step(g[n - 1], n)
    <2>1. n - 1 \in 0..k
        BY <1>2
    <2>2. g[n - 1] \in Seq(Docs)
        BY <1>5, <2>1
    <2>3. step[n][g[n - 1]] = Step(g[n - 1], n)
        BY <2>2
    <2> HIDE DEF step, X, base
    <2> QED BY <1>5, <2>3
<1>7. Out(g)
    <2> HIDE DEF step
    <2>1. \A n \in 0..k : n = 0 \/ n \in 1..k
        BY <1>2
    <2>2. \A n \in 0..k : g[n] = IF n = 0 THEN <<>> ELSE Step(g[n - 1], n)
        BY <1>5, <1>6, <2>1
    <2> QED BY <1>5, <2>2
<1>8. Out(out)
    <2> HIDE DEF Out
    <2> QED BY <1>7
<1>9. /\ out[0] = <<>>
      /\ \A n \in 1..k : out[n] = Step(out[n - 1], n)
    <2> HIDE DEF out
    <2>1. \A n \in 0..k : out[n] = IF n = 0 THEN <<>> ELSE Step(out[n - 1], n)
        BY <1>8
    <2> QED BY <1>2, <2>1
<1> HIDE DEF out, Out
<1> DEFINE Seen(n) == {s[i] : i \in 1..n}
           Good(n) == /\ out[n] \in Seq(Docs) /\ IsInjective(out[n])
                      /\ Ask!ToSet(out[n]) = Seen(n) \cap S
           T == {n \in Nat : n <= k => Good(n)}
<1>10. 0 \in T
    <2>1. <<>> \in Seq(Docs) /\ IsInjective(<<>>) /\ Ask!ToSet(<<>>) = {} /\ Seen(0) = {}
        BY DEF Ask!ToSet, IsInjective
    <2> HIDE DEF Seen
    <2> QED BY <1>9, <2>1
<1>11. ASSUME NEW n \in Nat, n \in T PROVE n + 1 \in T
    <2> SUFFICES ASSUME n + 1 <= k PROVE Good(n + 1)
        BY DEF T
    <2>1. Good(n) /\ s[n + 1] \in Docs /\ out[n + 1] = Step(out[n], n + 1)
        BY <1>2, <1>9, <1>11
    <2>2. Seen(n + 1) = Seen(n) \cup {s[n + 1]}
        OBVIOUS
    <2> HIDE DEF Seen
    <2>3. CASE s[n + 1] \in S \ Ask!ToSet(out[n])
        <3>1. out[n + 1] = Append(out[n], s[n + 1])
            BY <2>1, <2>3 DEF Step
        <3>2. PICK v \in Seq(Docs), w \in Seq(Docs) :
                  v = out[n] /\ w = out[n + 1] /\ w = Append(v, s[n + 1])
            <4>1. out[n] \in Seq(Docs) /\ s[n + 1] \in Docs
                BY <2>1
            <4>2. Append(out[n], s[n + 1]) \in Seq(Docs)
                BY <4>1, Appended
            <4> QED BY <3>1, <4>1, <4>2
        <3>3. /\ Len(w) = Len(v) + 1 /\ Len(v) \in Nat
              /\ \A i \in 1..Len(v) : w[i] = v[i]
              /\ w[Len(v) + 1] = s[n + 1]
              /\ DOMAIN v = 1..Len(v) /\ DOMAIN w = 1..Len(v) + 1
            <4>1. PICK d \in Docs : d = s[n + 1]
                BY <2>1
            <4>2. w = Append(v, d)
                BY <3>2, <4>1
            <4> QED BY <4>1, <4>2, Appended
        <3>4. Ask!ToSet(w) = Ask!ToSet(v) \cup {s[n + 1]}
            <4>1. DOMAIN w = DOMAIN v \cup {Len(v) + 1}
                BY <3>3
            <4>2. \A i \in DOMAIN v : w[i] = v[i]
                BY <3>3
            <4> QED BY <3>3, <4>1, <4>2 DEF Ask!ToSet
        <3>5. \A i \in 1..Len(v) : v[i] \in Ask!ToSet(v)
            BY DEF Ask!ToSet
        <3>6. IsInjective(w)
            <4>1. s[n + 1] \notin Ask!ToSet(v) /\ IsInjective(v)
                BY <2>1, <2>3, <3>2
            <4> QED BY <3>3, <3>5, <4>1 DEF IsInjective
        <3> QED BY <2>1, <2>2, <2>3, <3>2, <3>4, <3>6
    <2>4. CASE ~(s[n + 1] \in S \ Ask!ToSet(out[n]))
        <3>1. out[n + 1] = out[n]
            BY <2>1, <2>4 DEF Step
        <3> QED BY <2>1, <2>2, <2>4, <3>1
    <2> QED BY <2>3, <2>4
<1> HIDE DEF T
<1>12. k \in T
    BY <1>2, <1>10, <1>11, NatSetInduction
<1>13. Good(k)
    BY <1>2, <1>12 DEF T
<1>14. Seen(k) = Ask!ToSet(s)
    BY <1>2 DEF Ask!ToSet
<1> QED BY <1>1, <1>13, <1>14

\* No more distinct documents than places to take them from.
LEMMA DistinctFit ==
    ASSUME NEW s \in Seq(Docs), NEW t \in Seq(Docs), IsInjective(s), Ask!ToSet(s) \subseteq Ask!ToSet(t)
    PROVE  Len(s) <= Len(t)
<1> DEFINE f == [i \in 1..Len(s) |-> CHOOSE j \in 1..Len(t) : t[j] = s[i]]
<1>1. ASSUME NEW i \in 1..Len(s) PROVE \E j \in 1..Len(t) : t[j] = s[i]
    <2>1. s[i] \in Ask!ToSet(t)
        BY DEF Ask!ToSet
    <2> HIDE DEF f
    <2> QED BY <2>1 DEF Ask!ToSet
<1>2. \A i \in 1..Len(s) : f[i] \in 1..Len(t) /\ t[f[i]] = s[i]
    BY <1>1
<1>3. f \in [1..Len(s) -> 1..Len(t)]
    BY <1>2
<1>4. f \in Injection(1..Len(s), 1..Len(t))
    <2> HIDE DEF f
    <2>1. \A a, b \in 1..Len(s) : f[a] = f[b] => a = b
        BY <1>2 DEF IsInjective
    <2> QED BY <1>3, <2>1 DEF Injection, IsInjective
<1> HIDE DEF f
<1>5. Len(s) \in Nat /\ Len(t) \in Nat
    OBVIOUS
<1>6. ASSUME NEW n \in Nat PROVE IsFiniteSet(1..n) /\ Cardinality(1..n) = n
    <2>1. IsFiniteSet(1..n) /\ Cardinality(1..n) = IF 1 > n THEN 0 ELSE n - 1 + 1
        BY FS_Interval
    <2> QED BY <2>1
<1>7. Cardinality(1..Len(s)) <= Cardinality(1..Len(t))
    BY <1>4, <1>5, <1>6, FS_Injection
<1> QED BY <1>5, <1>6, <1>7

\* The beginning of a listing of distinct documents.
LEMMA CutDocs ==
    ASSUME NEW s \in Seq(Docs), NEW n \in Nat \ {0}
    PROVE  LET c == Ask!Cut(s, n) IN
           /\ c \in Seq(Docs) /\ Len(c) <= n
           /\ Ask!ToSet(c) \subseteq Ask!ToSet(s)
           /\ IsInjective(s) => IsInjective(c)
           /\ c = <<>> => s = <<>>
<1> DEFINE m == IF n < Len(s) THEN n ELSE Len(s)
           c == SubSeq(s, 1, m)
<1>1. m \in Nat /\ m <= Len(s) /\ m <= n /\ (m = 0 => Len(s) = 0)
    OBVIOUS
<1> HIDE DEF m
<1>2. c \in Seq(Docs) /\ Len(c) = m /\ \A i \in 1..m : c[i] = s[i]
    BY <1>1
<1>3. Ask!ToSet(c) \subseteq Ask!ToSet(s)
    BY <1>1, <1>2 DEF Ask!ToSet
<1>4. IsInjective(s) => IsInjective(c)
    BY <1>1, <1>2 DEF IsInjective
<1>5. Ask!Cut(s, n) = c
    BY DEF Ask!Cut, m
<1> HIDE DEF c
<1> QED BY <1>1, <1>2, <1>3, <1>4, <1>5

\* The sources put into a prompt are distinct and no more than fit.
LEMMA PromptDocs ==
    ASSUME NEW structural \in Seq(Docs), NEW chunks \in Seq(Docs), NEW unreadable
    PROVE  LET p == Ask!promotePromptResults(structural, chunks, unreadable) IN
           p \in Seq(Docs) /\ IsInjective(p) /\ Len(p) <= ContextSize
<1> DEFINE S == Ask!ToSet(structural) \cup (Docs \ unreadable)
<1>1. PICK ranked \in Seq(Docs) : ranked = Ask!rankedUniqueDocIds(chunks, S) /\ IsInjective(ranked)
    BY UniqueDocs
<1>2. PICK rest \in Seq(Docs) :
          /\ rest = Ask!rankedUniqueDocIds(structural, Docs \ Ask!ToSet(ranked))
          /\ IsInjective(rest)
          /\ Ask!ToSet(rest) \cap Ask!ToSet(ranked) = {}
    BY UniqueDocs
<1>3. PICK both \in Seq(Docs) : both = ranked \o rest
    <2>1. ranked \o rest \in Seq(Docs)
        OBVIOUS
    <2> QED BY <2>1
<1>4. IsInjective(both)
    <2>1. /\ Len(both) = Len(ranked) + Len(rest) /\ Len(ranked) \in Nat /\ Len(rest) \in Nat
          /\ \A i \in 1..Len(ranked) : both[i] = ranked[i]
          /\ \A i \in 1..Len(rest) : both[Len(ranked) + i] = rest[i]
          /\ DOMAIN both = 1..Len(both) /\ DOMAIN ranked = 1..Len(ranked) /\ DOMAIN rest = 1..Len(rest)
        BY <1>3
    <2>2. /\ \A i \in DOMAIN ranked : ranked[i] \in Ask!ToSet(ranked)
          /\ \A i \in DOMAIN rest : rest[i] \in Ask!ToSet(rest)
        BY DEF Ask!ToSet
    <2>3. ASSUME NEW a \in DOMAIN both, NEW b \in DOMAIN both, both[a] = both[b] PROVE a = b
        <3>1. CASE a \in DOMAIN ranked /\ b \in DOMAIN ranked
            BY <1>1, <2>1, <2>3, <3>1 DEF IsInjective
        <3>2. ASSUME NEW i \in DOMAIN both, i \notin DOMAIN ranked
              PROVE  \E j \in DOMAIN rest : i = Len(ranked) + j /\ both[i] = rest[j]
            <4>1. i - Len(ranked) \in DOMAIN rest /\ i = Len(ranked) + (i - Len(ranked))
                BY <2>1, <3>2
            <4> QED BY <2>1, <4>1
        <3>3. CASE a \notin DOMAIN ranked /\ b \notin DOMAIN ranked
            <4>1. PICK i \in DOMAIN rest : a = Len(ranked) + i /\ both[a] = rest[i]
                BY <3>2, <3>3
            <4>2. PICK j \in DOMAIN rest : b = Len(ranked) + j /\ both[b] = rest[j]
                BY <3>2, <3>3
            <4> QED BY <1>2, <2>3, <4>1, <4>2 DEF IsInjective
        <3>4. CASE a \in DOMAIN ranked /\ b \notin DOMAIN ranked
            BY <1>2, <2>1, <2>2, <2>3, <3>2, <3>4
        <3>5. CASE a \notin DOMAIN ranked /\ b \in DOMAIN ranked
            BY <1>2, <2>1, <2>2, <2>3, <3>2, <3>5
        <3> QED BY <3>1, <3>3, <3>4, <3>5
    <2> QED BY <2>3 DEF IsInjective
<1>5. Ask!promotePromptResults(structural, chunks, unreadable) = Ask!Cut(both, ContextSize)
    BY <1>1, <1>2, <1>3 DEF Ask!promotePromptResults
<1> QED BY <1>4, <1>5, CutDocs, AnswerAssumption

\* The sources listed are among those the answer may have, and missing only for a reason.
LEMMA CitedDocs ==
    ASSUME NEW kind, NEW cited \in Seq(Docs), NEW among \in Seq(Docs), NEW fallback \in Seq(Docs),
           IsInjective(fallback), Ask!ToSet(fallback) \subseteq Ask!ToSet(among)
    PROVE  LET c == Ask!citationsFor(kind, cited, among, fallback) IN
           /\ c \in Seq(Docs) /\ IsInjective(c)
           /\ Ask!ToSet(c) \subseteq Ask!ToSet(among)
           /\ Len(c) <= Len(among)
           /\ c = <<>> => kind = "denial" \/ fallback = <<>>
<1> DEFINE listed == IF kind = "text" THEN Ask!resolveCitations(cited, among) ELSE <<>>
           c == Ask!citationsFor(kind, cited, among, fallback)
<1>1. listed \in Seq(Docs) /\ IsInjective(listed) /\ Ask!ToSet(listed) \subseteq Ask!ToSet(among)
    <2>1. <<>> \in Seq(Docs) /\ IsInjective(<<>>) /\ Ask!ToSet(<<>>) = {}
        BY DEF IsInjective, Ask!ToSet
    <2>2. /\ Ask!resolveCitations(cited, among) \in Seq(Docs)
          /\ IsInjective(Ask!resolveCitations(cited, among))
          /\ Ask!ToSet(Ask!resolveCitations(cited, among)) \subseteq Ask!ToSet(among)
        BY UniqueDocs DEF Ask!resolveCitations
    <2> QED BY <2>1, <2>2
<1>2. c = IF listed = <<>> /\ kind # "denial" THEN fallback ELSE listed
    BY DEF Ask!citationsFor
<1> HIDE DEF listed, c
<1>3. /\ c \in Seq(Docs) /\ IsInjective(c)
      /\ Ask!ToSet(c) \subseteq Ask!ToSet(among)
      /\ c = <<>> => kind = "denial" \/ fallback = <<>>
    BY <1>1, <1>2
<1>4. Len(c) <= Len(among)
    BY <1>3, DistinctFit
<1> QED BY <1>3, <1>4 DEF c

LEMMA BoundedDocs ==
    ASSUME NEW n \in Nat
    PROVE  /\ Ask!BoundedSeq(Docs, n) \subseteq Seq(Docs)
           /\ \A s \in Ask!DocLists(n) : s \in Seq(Docs) /\ IsInjective(s)
<1>1. Ask!BoundedSeq(Docs, n) \subseteq Seq(Docs)
    <2>1. ASSUME NEW m \in 0..n, NEW s \in [1..m -> Docs] PROVE s \in Seq(Docs)
        OBVIOUS
    <2> QED BY <2>1 DEF Ask!BoundedSeq, Ask!SeqOf
<1> QED BY <1>1 DEF Ask!DocLists, Ask!IsInjective, IsInjective

-----------------------------------------------------------------------------
(***************************************************************************)
(* An answer on its way.  What the page shows was on the wire before, so   *)
(* every record under way must answer the latest question, and a final one *)
(* must carry sources of the prompt, which no longer changes then.         *)
(***************************************************************************)
Texts == {"meta", "delta", "text", "denial", "noMatch", "failed"}
Recs == [ev : {"meta", "chunk", "final", "error"}, q : Nat, text : Texts, citations : Seq(Docs)]
Jobs == [results : Seq(Docs), chunks : Seq(Docs), prompt : Seq(Docs), deltas : Nat]
Shows == [answer : Seq(Recs), meta : Nat \cup {Null}, citations : Seq(Docs),
          errorText : Nat \cup {Null}, streaming : BOOLEAN]
Replies == [text : Texts, results : Seq(Docs), citations : Seq(Docs)]

\* Sources of an answer from a prompt p.
Sourced(r, p) ==
    /\ IsInjective(r.citations)
    /\ Ask!ToSet(r.citations) \subseteq Ask!ToSet(p)
    /\ Len(r.citations) <= ContextSize
    /\ r.citations = <<>> => r.text \in {"denial", "noMatch"} \/ p = <<>>

\* A record for question q, from a server with prompt p at stage s.
RecOK(r, q, p, s) == r.q = q /\ (r.ev = "final" => Sourced(r, p) /\ s = "done")

AskTyped ==
    /\ wire \in Seq(Recs)
    /\ shown \in Shows
    /\ job \in Jobs
    /\ IsInjective(job.prompt) /\ Len(job.prompt) <= ContextSize

WireOK == \A i \in DOMAIN wire : RecOK(wire[i], asked, job.prompt, srv)
AnswerOK ==
    \A i \in DOMAIN shown.answer :
        RecOK(shown.answer[i], asked, job.prompt, srv) /\ (shown.answer[i].ev = "final" => i = 1)

\* While the browser has no response yet there is nothing of it, and the API is not at work.
Unanswered ==
    run \in {"fetching", "errorBody"} =>
        wire = <<>> /\ shown.answer = <<>> /\ srv = (IF run = "fetching" THEN "idle" ELSE "done")

PageOK ==
    /\ shown.meta \in {Null, asked} /\ shown.errorText \in {Null, asked}
    /\ asked > 0 /\ ~shown.streaming => Ask!Complete \/ shown.errorText # Null \/ stopped

ReplyOK ==
    reply # Null =>
        /\ reply.citations \in Seq(Docs) /\ IsInjective(reply.citations)
        /\ Ask!ToSet(reply.citations) \subseteq Ask!ToSet(reply.results)
        /\ reply.citations = <<>> => reply.text \in {"denial", "noMatch"}

AskInv == Ask!TypeOK /\ AskTyped /\ WireOK /\ AnswerOK /\ Unanswered /\ PageOK /\ ReplyOK

LEMMA NoDocs ==
    <<>> \in Seq(Docs) /\ <<>> \in Seq(Recs) /\ IsInjective(<<>>) /\ Ask!ToSet(<<>>) = {} /\ Len(<<>>) = 0
  BY DEF IsInjective, Ask!ToSet

LEMMA NoJobTyped == Ask!NoJob \in Jobs /\ Ask!NoJob.prompt = <<>>
  BY NoDocs DEF Ask!NoJob, Jobs

LEMMA BlankTyped ==
    /\ Ask!Blank \in Shows /\ Ask!Blank.answer = <<>> /\ Ask!Blank.meta = Null
    /\ Ask!Blank.errorText = Null /\ Ask!Blank.streaming = FALSE
  BY NoDocs DEF Ask!Blank, Shows

LEMMA AskInit == Ask!Init => AskInv
<1> SUFFICES ASSUME Ask!Init PROVE AskInv
    OBVIOUS
<1> USE DEF Ask!Init
<1>1. Ask!TypeOK
    <2>1. shown.streaming \in BOOLEAN /\ ~shown.streaming
        BY DEF Ask!Blank
    <2>2. asked \in 0..MaxAsks
        BY AnswerAssumption
    <2> QED BY <2>1, <2>2 DEF Ask!TypeOK
<1>2. AskTyped
    BY NoDocs, NoJobTyped, BlankTyped, AnswerAssumption DEF AskTyped
<1>3. WireOK /\ AnswerOK /\ Unanswered /\ PageOK /\ ReplyOK
    BY BlankTyped DEF WireOK, AnswerOK, Unanswered, PageOK, ReplyOK
<1> QED BY <1>1, <1>2, <1>3 DEF AskInv

\* The API writes only before it is done, when no final record is under way.
LEMMA Sending ==
    ASSUME AskInv, srv \notin {"idle", "done"}, NEW recs \in Seq(Recs), wire' = wire \o recs,
           UNCHANGED <<asked, run, shown, stopped, reply>>,
           end' \in {"open", "closed", "broken"},
           srv' \in {"filter", "search", "retrieve", "prompt", "generate", "done"},
           job' \in Jobs, IsInjective(job'.prompt), Len(job'.prompt) <= ContextSize,
           \A i \in DOMAIN recs : RecOK(recs[i], asked, job'.prompt, srv')
    PROVE  AskInv'
<1> USE DEF AskInv
<1>1. wire \in Seq(Recs) /\ shown \in Shows
    BY DEF AskTyped
<1>2. PICK w \in Seq(Recs) : w = wire \o recs
    <2>1. wire \o recs \in Seq(Recs)
        BY <1>1
    <2> QED BY <2>1
<1>3. /\ Len(w) = Len(wire) + Len(recs) /\ Len(wire) \in Nat /\ Len(recs) \in Nat
      /\ \A i \in 1..Len(wire) : w[i] = wire[i]
      /\ \A i \in 1..Len(recs) : w[Len(wire) + i] = recs[i]
      /\ DOMAIN w = 1..Len(w) /\ DOMAIN wire = 1..Len(wire) /\ DOMAIN recs = 1..Len(recs)
    BY <1>1, <1>2
<1>4. /\ \A i \in DOMAIN wire : wire[i].q = asked /\ wire[i].ev # "final"
      /\ \A i \in DOMAIN shown.answer : shown.answer[i].q = asked /\ shown.answer[i].ev # "final"
    BY DEF WireOK, AnswerOK, RecOK
<1>5. Ask!TypeOK' /\ AskTyped' /\ Unanswered' /\ PageOK' /\ ReplyOK'
    BY <1>2 DEF Ask!TypeOK, AskTyped, Unanswered, PageOK, ReplyOK, Ask!Complete
<1>6. WireOK'
    <2>1. ASSUME NEW i \in DOMAIN w PROVE RecOK(w[i], asked, job'.prompt, srv')
        <3>1. CASE i \in DOMAIN wire
            BY <1>3, <1>4, <3>1 DEF RecOK
        <3>2. CASE i \notin DOMAIN wire
            <4>1. i - Len(wire) \in DOMAIN recs /\ i = Len(wire) + (i - Len(wire))
                BY <1>3, <3>2
            <4> QED BY <1>3, <4>1
        <3> QED BY <3>1, <3>2
    <2> QED BY <1>2, <2>1 DEF WireOK
<1>7. AnswerOK'
    BY <1>4 DEF AnswerOK, RecOK
<1> QED BY <1>5, <1>6, <1>7

\* It goes on without a word.
LEMMA Silent ==
    ASSUME AskInv, srv \notin {"idle", "done"}, wire' = wire,
           UNCHANGED <<asked, run, shown, stopped, reply, end>>,
           srv' \in {"filter", "search", "retrieve", "prompt", "generate", "done"},
           job' \in Jobs, IsInjective(job'.prompt), Len(job'.prompt) <= ContextSize
    PROVE  AskInv'
<1>1. PICK recs : recs = <<>>
    OBVIOUS
<1>2. /\ recs \in Seq(Recs) /\ wire' = wire \o recs
      /\ \A i \in DOMAIN recs : RecOK(recs[i], asked, job'.prompt, srv')
    BY <1>1 DEF AskInv, AskTyped
<1>3. end' \in {"open", "closed", "broken"}
    BY DEF AskInv, Ask!TypeOK
<1> QED BY <1>2, <1>3, Sending

LEMMA AbandonInv == ASSUME AskInv, Ask!Abandon PROVE AskInv'
<1> DEFINE r == Ask!Rec("error", "failed", <<>>)
           recs == <<r>>
<1>1. asked \in Nat /\ AskTyped /\ srv \notin {"idle", "done"}
    BY AnswerAssumption DEF AskInv, Ask!TypeOK, Ask!Abandon
<1>2. r \in Recs /\ r.ev = "error" /\ r.q = asked
    BY <1>1, NoDocs DEF Ask!Rec, Recs, Texts
<1> HIDE DEF r
<1>3. recs \in Seq(Recs) /\ \A i \in DOMAIN recs : RecOK(recs[i], asked, job'.prompt, srv')
    BY <1>2 DEF RecOK
<1>4. wire' = wire \o recs /\ end' = "closed" /\ srv' = "done" /\ job' = job
      /\ UNCHANGED <<asked, run, shown, stopped, reply>>
    BY DEF Ask!Abandon, Ask!SendLast, Ask!browser, r
<1> HIDE DEF recs
<1> QED BY <1>1, <1>3, <1>4, Sending DEF AskInv, AskTyped

LEMMA FilterReadyInv == ASSUME AskInv, Ask!FilterReady PROVE AskInv'
<1>1. AskTyped /\ srv \notin {"idle", "done"}
    BY DEF AskInv, Ask!FilterReady
<1>2. /\ srv' = "search" /\ UNCHANGED <<asked, run, shown, stopped, reply>>
      /\ job' = job /\ end' = end /\ wire' = wire
    BY DEF Ask!FilterReady, Ask!browser
<1> QED BY <1>1, <1>2, Silent DEF AskTyped

LEMMA SearchInv == ASSUME AskInv, Ask!Search PROVE AskInv'
<1> DEFINE r == Ask!Rec("meta", "meta", <<>>)
           recs == <<r>>
<1>1. asked \in Nat /\ AskTyped /\ srv \notin {"idle", "done"} /\ end \in {"open", "closed", "broken"}
    BY AnswerAssumption DEF AskInv, Ask!TypeOK, Ask!Search
<1>2. r \in Recs /\ r.ev = "meta" /\ r.q = asked
    BY <1>1, NoDocs DEF Ask!Rec, Recs, Texts
<1> HIDE DEF r
<1>3. recs \in Seq(Recs) /\ \A i \in DOMAIN recs : RecOK(recs[i], asked, job'.prompt, srv')
    BY <1>2 DEF RecOK
<1>4. wire' = wire \o recs /\ end' = end /\ srv' = "retrieve" /\ UNCHANGED <<asked, run, shown, stopped, reply>>
    BY DEF Ask!Search, Ask!Send, Ask!browser, r
<1>5. job' \in Jobs /\ job'.prompt = job.prompt
    <2>1. PICK results \in Ask!DocLists(MaxResults) : job' = [job EXCEPT !.results = results]
        BY DEF Ask!Search
    <2>2. results \in Seq(Docs)
        BY <2>1, BoundedDocs, AnswerAssumption
    <2> QED BY <1>1, <2>1, <2>2 DEF AskTyped, Jobs
<1> HIDE DEF recs
<1> QED BY <1>1, <1>3, <1>4, <1>5, Sending DEF AskTyped

LEMMA RetrievedDocs ==
    ASSUME NEW hits \in Seq(Docs), NEW chunks \in Ask!retrieveChunksForQuestion(hits)
    PROVE  chunks \in Seq(Docs)
<1>1. CASE chunks = <<>>
    BY <1>1
<1>2. CASE chunks # <<>>
    <2>1. PICK p \in [DOMAIN hits -> DOMAIN hits] :
              chunks = Ask!Cut([i \in DOMAIN hits |-> hits[p[i]]], RerankTopK)
        BY <1>2 DEF Ask!retrieveChunksForQuestion
    <2>2. PICK s : s = [i \in DOMAIN hits |-> hits[p[i]]]
        OBVIOUS
    <2>3. s \in [1..Len(hits) -> Docs]
        BY <2>2
    <2>4. s \in Seq(Docs) /\ Len(s) \in Nat
        BY <2>3
    <2> QED BY <2>1, <2>2, <2>4, CutDocs, AnswerAssumption
<1> QED BY <1>1, <1>2

LEMMA RetrieveInv == ASSUME AskInv, Ask!Retrieve PROVE AskInv'
<1>1. asked \in Nat /\ AskTyped /\ srv \notin {"idle", "done"} /\ end \in {"open", "closed", "broken"}
    BY AnswerAssumption DEF AskInv, Ask!TypeOK, Ask!Retrieve
<1>2. job' \in Jobs /\ job'.prompt = job.prompt
    <2>1. PICK hits \in Ask!BoundedSeq(Docs, MaxHits) :
          \E chunks \in Ask!retrieveChunksForQuestion(hits) : job' = [job EXCEPT !.chunks = chunks]
        BY DEF Ask!Retrieve
    <2>2. PICK chunks \in Ask!retrieveChunksForQuestion(hits) : job' = [job EXCEPT !.chunks = chunks]
        BY <2>1
    <2>3. chunks \in Seq(Docs)
        BY <2>1, <2>2, BoundedDocs, RetrievedDocs, AnswerAssumption
    <2> QED BY <1>1, <2>2, <2>3 DEF AskTyped, Jobs
<1>3. UNCHANGED <<asked, run, shown, stopped, reply>>
    BY DEF Ask!Retrieve, Ask!browser
<1>4. CASE job.results = <<>> /\ job'.chunks = <<>>
    <2> DEFINE r == Ask!Rec("chunk", "noMatch", <<>>)
               f == Ask!Rec("final", "noMatch", <<>>)
               recs == <<r, f>>
    <2>1. r \in Recs /\ r.ev = "chunk" /\ r.q = asked
        BY <1>1, NoDocs DEF Ask!Rec, Recs, Texts
    <2>2. f \in Recs /\ f.ev = "final" /\ f.q = asked /\ f.text = "noMatch" /\ f.citations = <<>>
        BY <1>1, NoDocs DEF Ask!Rec, Recs, Texts
    <2>3. wire' = wire \o recs /\ end' = "closed" /\ srv' = "done"
        BY <1>4 DEF Ask!Retrieve, Ask!SendLast
    <2>4. Sourced(f, job'.prompt)
        BY <2>2, NoDocs, AnswerAssumption DEF Sourced
    <2> HIDE DEF r, f
    <2>5. recs \in Seq(Recs) /\ \A i \in DOMAIN recs : RecOK(recs[i], asked, job'.prompt, srv')
        BY <2>1, <2>2, <2>3, <2>4 DEF RecOK
    <2> HIDE DEF recs
    <2> QED BY <1>1, <1>2, <1>3, <2>3, <2>5, Sending DEF AskTyped
<1>5. CASE ~(job.results = <<>> /\ job'.chunks = <<>>)
    <2>1. srv' = "prompt" /\ wire' = wire /\ end' = end
        BY <1>5 DEF Ask!Retrieve
    <2> QED BY <1>1, <1>2, <1>3, <2>1, Silent DEF AskTyped
<1> QED BY <1>4, <1>5

LEMMA PromptInv == ASSUME AskInv, Ask!Prompt PROVE AskInv'
<1>1. AskTyped /\ srv \notin {"idle", "done"}
    BY DEF AskInv, Ask!Prompt
<1>2. /\ srv' = "generate" /\ UNCHANGED <<asked, run, shown, stopped, reply>>
      /\ end' = end /\ wire' = wire
    BY DEF Ask!Prompt, Ask!browser
<1>3. job' \in Jobs /\ IsInjective(job'.prompt) /\ Len(job'.prompt) <= ContextSize
    <2>1. PICK unreadable \in SUBSET Docs :
              job' = [Ask!NoJob EXCEPT !.prompt =
                         Ask!promotePromptResults(job.results, job.chunks, unreadable)]
        BY DEF Ask!Prompt
    <2>2. job.results \in Seq(Docs) /\ job.chunks \in Seq(Docs)
        BY <1>1 DEF AskTyped, Jobs
    <2>3. PICK p \in Seq(Docs) : /\ p = Ask!promotePromptResults(job.results, job.chunks, unreadable)
                                 /\ IsInjective(p) /\ Len(p) <= ContextSize
        BY <2>2, PromptDocs
    <2> QED BY <2>1, <2>3, NoJobTyped DEF Jobs
<1> QED BY <1>1, <1>2, <1>3, Silent

LEMMA DeltaInv == ASSUME AskInv, Ask!Delta PROVE AskInv'
<1> DEFINE r == Ask!Rec("chunk", "delta", <<>>)
           recs == <<r>>
<1>1. asked \in Nat /\ AskTyped /\ srv \notin {"idle", "done"} /\ end \in {"open", "closed", "broken"}
    BY AnswerAssumption DEF AskInv, Ask!TypeOK, Ask!Delta
<1>2. r \in Recs /\ r.ev = "chunk" /\ r.q = asked
    BY <1>1, NoDocs DEF Ask!Rec, Recs, Texts
<1> HIDE DEF r
<1>3. recs \in Seq(Recs) /\ \A i \in DOMAIN recs : RecOK(recs[i], asked, job'.prompt, srv')
    BY <1>2 DEF RecOK
<1>4. /\ wire' = wire \o recs /\ end' = end /\ srv' = "generate"
      /\ UNCHANGED <<asked, run, shown, stopped, reply>>
    BY DEF Ask!Delta, Ask!Send, Ask!browser, r
<1>5. job' \in Jobs /\ job'.prompt = job.prompt
    BY <1>1 DEF Ask!Delta, AskTyped, Jobs
<1> HIDE DEF recs
<1> QED BY <1>1, <1>3, <1>4, <1>5, Sending DEF AskTyped

\* The final record lists sources of the prompt the answer was made from.
LEMMA FinishInv == ASSUME AskInv, Ask!Finish PROVE AskInv'
<1> DEFINE a == Ask!Rec("chunk", "failed", <<>>)
<1>1. asked \in Nat /\ AskTyped /\ srv \notin {"idle", "done"}
    BY AnswerAssumption DEF AskInv, Ask!TypeOK, Ask!Finish
<1>2. PICK kind \in {"text", "denial", "failed"}, cited \in Ask!BoundedSeq(Docs, 2),
           apology \in {<<>>, <<a>>} :
          /\ wire' = wire \o (apology \o
                <<Ask!Rec("final", kind, Ask!citationsFor(kind, cited, job.prompt, job.prompt))>>)
          /\ end' = "closed"
    BY DEF Ask!Finish, Ask!SendLast
<1>3. cited \in Seq(Docs) /\ job.prompt \in Seq(Docs)
    BY <1>1, BoundedDocs DEF AskTyped, Jobs
<1>4. PICK c \in Seq(Docs) :
          /\ c = Ask!citationsFor(kind, cited, job.prompt, job.prompt)
          /\ IsInjective(c) /\ Ask!ToSet(c) \subseteq Ask!ToSet(job.prompt)
          /\ Len(c) <= Len(job.prompt)
          /\ c = <<>> => kind = "denial" \/ job.prompt = <<>>
    BY <1>1, <1>3, CitedDocs DEF AskTyped
<1> DEFINE f == Ask!Rec("final", kind, c)
           recs == apology \o <<f>>
<1>5. a \in Recs /\ a.ev = "chunk" /\ a.q = asked
    BY <1>1, NoDocs DEF Ask!Rec, Recs, Texts
<1>6. f \in Recs /\ f.ev = "final" /\ f.q = asked /\ f.text = kind /\ f.citations = c
    BY <1>1, <1>4 DEF Ask!Rec, Recs, Texts
<1>7. Sourced(f, job.prompt)
    <2>1. Len(c) \in Nat /\ Len(job.prompt) \in Nat /\ Len(job.prompt) <= ContextSize
        BY <1>1, <1>3 DEF AskTyped
    <2> HIDE DEF f
    <2> QED BY <1>4, <1>6, <2>1, AnswerAssumption DEF Sourced
<1>8. wire' = wire \o recs /\ srv' = "done" /\ job' = job /\ UNCHANGED <<asked, run, shown, stopped, reply>>
    BY <1>2, <1>4 DEF Ask!Finish, Ask!browser
<1> HIDE DEF a, f
<1>9. recs \in Seq(Recs) /\ \A i \in DOMAIN recs : RecOK(recs[i], asked, job'.prompt, srv')
    <2>1. RecOK(a, asked, job'.prompt, srv') /\ RecOK(f, asked, job'.prompt, srv')
        BY <1>5, <1>6, <1>7, <1>8 DEF RecOK
    <2>2. CASE apology = <<>>
        BY <1>6, <2>1, <2>2
    <2>3. CASE apology = <<a>>
        BY <1>5, <1>6, <2>1, <2>3
    <2> QED BY <2>2, <2>3
<1> HIDE DEF recs
<1> QED BY <1>1, <1>2, <1>8, <1>9, Sending DEF AskTyped

\* POST /ai/answer: candidates of the search, or all results that were cited.
LEMMA AnswerInv == ASSUME AskInv, Ask!answer PROVE AskInv'
<1> USE DEF AskInv
<1>1. UNCHANGED <<asked, run, wire, end, shown, stopped, srv, job>>
    BY DEF Ask!answer
<1>2. Ask!TypeOK' /\ AskTyped' /\ WireOK' /\ AnswerOK' /\ Unanswered' /\ PageOK'
    BY <1>1 DEF Ask!TypeOK, AskTyped, WireOK, AnswerOK, Unanswered, PageOK, Ask!Complete
<1>3. PICK results \in Ask!DocLists(3), kind \in {"text", "denial", "failed"}, cited \in Ask!BoundedSeq(Docs, 2) :
          reply' = IF results = <<>>
                   THEN [text |-> "noMatch", results |-> <<>>, citations |-> <<>>]
                   ELSE [text |-> kind, results |-> results,
                         citations |-> Ask!citationsFor(kind, cited, results, Ask!Cut(results, ContextSize))]
    BY DEF Ask!answer
<1>4. results \in Seq(Docs) /\ IsInjective(results) /\ cited \in Seq(Docs)
    BY <1>3, BoundedDocs
<1>5. PICK cut \in Seq(Docs) : /\ cut = Ask!Cut(results, ContextSize) /\ IsInjective(cut)
                               /\ Ask!ToSet(cut) \subseteq Ask!ToSet(results)
                               /\ cut = <<>> => results = <<>>
    BY <1>4, CutDocs, AnswerAssumption
<1>6. PICK c \in Seq(Docs) : /\ c = Ask!citationsFor(kind, cited, results, cut)
                             /\ IsInjective(c) /\ Ask!ToSet(c) \subseteq Ask!ToSet(results)
                             /\ c = <<>> => kind = "denial" \/ cut = <<>>
    BY <1>4, <1>5, CitedDocs
<1>7. CASE results = <<>>
    <2>1. reply'.text = "noMatch" /\ reply'.results = <<>> /\ reply'.citations = <<>>
        BY <1>3, <1>7
    <2> QED BY <1>2, <2>1, NoDocs DEF ReplyOK
<1>8. CASE results # <<>>
    <2>1. reply'.text = kind /\ reply'.results = results /\ reply'.citations = c
        BY <1>3, <1>5, <1>6, <1>8
    <2> QED BY <1>2, <1>5, <1>6, <1>8, <2>1 DEF ReplyOK
<1> QED BY <1>7, <1>8

LEMMA CutOffInv == ASSUME AskInv, Ask!CutOff PROVE AskInv'
<1> USE DEF AskInv
<1>1. PICK n \in 0..Len(wire) : wire' = SubSeq(wire, 1, n)
    BY DEF Ask!CutOff
<1>2. /\ run = "reading" /\ srv' = "done" /\ end' \in {"closed", "broken"}
      /\ UNCHANGED <<asked, run, shown, stopped, reply, job>>
    BY DEF Ask!CutOff, Ask!browser
<1>3. wire \in Seq(Recs)
    BY DEF AskTyped
<1>4. wire' \in Seq(Recs) /\ DOMAIN wire' \subseteq DOMAIN wire /\ \A i \in DOMAIN wire' : wire'[i] = wire[i]
    <2>1. PICK w \in Seq(Recs) : w = SubSeq(wire, 1, n)
        <3>1. SubSeq(wire, 1, n) \in Seq(Recs)
            BY <1>3
        <3> QED BY <3>1
    <2>2. Len(w) = n /\ n <= Len(wire) /\ DOMAIN w = 1..n /\ \A i \in 1..n : w[i] = wire[i]
        BY <1>3, <2>1
    <2> QED BY <1>1, <1>3, <2>1, <2>2
<1>5. Ask!TypeOK' /\ AskTyped' /\ Unanswered' /\ PageOK' /\ ReplyOK'
    BY <1>2, <1>4 DEF Ask!TypeOK, AskTyped, Unanswered, PageOK, ReplyOK, Ask!Complete
<1>6. WireOK'
    BY <1>2, <1>4 DEF WireOK, RecOK
<1>7. AnswerOK'
    BY <1>2 DEF AnswerOK, RecOK
<1> QED BY <1>5, <1>6, <1>7

LEMMA AskedInv == ASSUME AskInv, Ask!ask PROVE AskInv'
<1> USE DEF AskInv
<1>1. /\ asked' = asked + 1 /\ run' = "fetching" /\ wire' = <<>> /\ end' = "open"
      /\ stopped' = FALSE /\ srv' = "idle" /\ job' = Ask!NoJob /\ reply' = reply
      /\ asked \in Nat /\ asked < MaxAsks
    BY AnswerAssumption DEF Ask!ask, Ask!canSubmit, Ask!TypeOK
<1>2. shown' \in Shows /\ shown'.answer = <<>> /\ shown'.meta = Null /\ shown'.errorText = Null
      /\ shown'.streaming = TRUE
    BY BlankTyped DEF Ask!ask, Shows
<1>3. Ask!TypeOK'
    <2>1. asked' \in 0..MaxAsks
        BY <1>1, AnswerAssumption
    <2>2. shown'.streaming \in BOOLEAN
        BY <1>2
    <2> QED BY <1>1, <2>1, <2>2 DEF Ask!TypeOK
<1>4. AskTyped'
    BY <1>1, <1>2, NoDocs, NoJobTyped, AnswerAssumption DEF AskTyped
<1>5. WireOK' /\ AnswerOK' /\ Unanswered' /\ PageOK' /\ ReplyOK'
    BY <1>1, <1>2 DEF WireOK, AnswerOK, Unanswered, PageOK, ReplyOK
<1> QED BY <1>3, <1>4, <1>5

LEMMA StopInv == ASSUME AskInv, Ask!stop PROVE AskInv'
<1> USE DEF AskInv
<1>1. /\ run' = "none" /\ wire' = <<>> /\ end' = "closed" /\ srv' = "done" /\ stopped' = TRUE
      /\ UNCHANGED <<asked, job, reply>> /\ asked \in Nat
    BY AnswerAssumption DEF Ask!stop, Ask!TypeOK
<1>2. PICK e \in {shown.errorText, asked} : shown' = [shown EXCEPT !.streaming = FALSE, !.errorText = e]
    BY DEF Ask!stop
<1>3. /\ shown' \in Shows /\ shown'.answer = shown.answer /\ shown'.meta = shown.meta
      /\ shown'.errorText \in {Null, asked} /\ shown'.streaming = FALSE
    BY <1>1, <1>2 DEF AskTyped, Shows, PageOK
<1>4. Ask!TypeOK' /\ AskTyped' /\ WireOK' /\ Unanswered' /\ PageOK' /\ ReplyOK'
    <2>1. Ask!TypeOK'
        BY <1>1, <1>3 DEF Ask!TypeOK
    <2>2. AskTyped' /\ WireOK' /\ Unanswered' /\ ReplyOK'
        BY <1>1, <1>3, NoDocs DEF AskTyped, WireOK, Unanswered, ReplyOK
    <2>3. PageOK'
        BY <1>1, <1>3 DEF PageOK
    <2> QED BY <2>1, <2>2, <2>3
<1>5. AnswerOK'
    BY <1>1, <1>3 DEF AnswerOK, RecOK
<1> QED BY <1>4, <1>5

LEMMA ErrorShown ==
    ASSUME AskInv
    PROVE  /\ Ask!onError \in Shows /\ Ask!onError.answer = shown.answer /\ Ask!onError.meta = shown.meta
           /\ Ask!onError.errorText = asked /\ Ask!onError.streaming = FALSE /\ asked # Null /\ asked \in Nat
<1>1. asked \in Nat /\ shown \in Shows
    BY AnswerAssumption DEF AskInv, AskTyped, Ask!TypeOK
<1> QED BY <1>1, AnswerAssumption DEF Ask!onError, Shows

LEMMA ResponseInv == ASSUME AskInv, Ask!Accepted \/ Ask!Rejected \/ Ask!RequestFails PROVE AskInv'
<1> USE DEF AskInv
<1>1. run \in {"fetching", "errorBody"} /\ wire = <<>> /\ shown.answer = <<>>
    BY DEF Ask!Accepted, Ask!Rejected, Ask!RequestFails, Unanswered
<1>2. CASE Ask!Accepted \/ Ask!Rejected
    <2>1. /\ UNCHANGED <<asked, wire, end, shown, stopped, job, reply>>
          /\ \/ run' = "reading" /\ srv' = "filter"
             \/ run' = "errorBody" /\ srv' = "done"
        BY <1>2 DEF Ask!Accepted, Ask!Rejected
    <2> QED BY <1>1, <2>1
            DEF Ask!TypeOK, AskTyped, WireOK, AnswerOK, Unanswered, PageOK, ReplyOK, Ask!Complete
<1>3. CASE Ask!RequestFails
    <2>1. /\ UNCHANGED <<asked, wire, end, stopped, job, reply>>
          /\ run' = "none" /\ srv' = "done" /\ shown' = Ask!onError
        BY <1>3 DEF Ask!RequestFails
    <2>2. /\ shown' \in Shows /\ shown'.answer = <<>> /\ shown'.meta = shown.meta
          /\ shown'.errorText = asked /\ shown'.streaming = FALSE /\ asked # Null
        BY <1>1, <2>1, ErrorShown
    <2>3. Ask!TypeOK'
        BY <2>1, <2>2 DEF Ask!TypeOK
    <2>4. AskTyped' /\ WireOK' /\ AnswerOK' /\ Unanswered' /\ ReplyOK'
        BY <1>1, <2>1, <2>2 DEF AskTyped, WireOK, AnswerOK, Unanswered, ReplyOK
    <2>5. PageOK'
        BY <2>1, <2>2 DEF PageOK
    <2> QED BY <2>3, <2>4, <2>5
<1> QED BY <1>2, <1>3

LEMMA ReadEndInv == ASSUME AskInv, Ask!ReadEnd PROVE AskInv'
<1> USE DEF AskInv
<1>1. /\ UNCHANGED <<asked, wire, end, stopped, srv, job, reply>> /\ run' = "none"
    BY DEF Ask!ReadEnd, Ask!server
<1>2. CASE shown' = Ask!onError
    <2>1. /\ shown' \in Shows /\ shown'.answer = shown.answer /\ shown'.meta = shown.meta
          /\ shown'.errorText = asked /\ shown'.streaming = FALSE /\ asked # Null
        BY <1>2, ErrorShown
    <2>2. AnswerOK'
        BY <1>1, <2>1 DEF AnswerOK, RecOK
    <2> QED BY <1>1, <2>1, <2>2
            DEF Ask!TypeOK, AskTyped, WireOK, Unanswered, PageOK, ReplyOK
<1>3. CASE shown' = shown /\ ~shown.streaming
    BY <1>1, <1>3
       DEF Ask!TypeOK, AskTyped, WireOK, AnswerOK, Unanswered, PageOK, ReplyOK, Ask!Complete
<1> QED BY <1>2, <1>3 DEF Ask!ReadEnd

\* A record shown was on the wire.
LEMMA ReadRecordInv == ASSUME AskInv, Ask!ReadRecord PROVE AskInv'
<1> USE DEF AskInv
<1>1. /\ UNCHANGED <<asked, run, end, stopped, srv, job, reply>> /\ run = "reading"
      /\ wire' = Tail(wire) /\ wire # <<>> /\ wire \in Seq(Recs) /\ shown \in Shows
    BY DEF Ask!ReadRecord, Ask!server, AskTyped
<1>2. PICK r \in Recs : r = Head(wire) /\ RecOK(r, asked, job.prompt, srv)
    <2>1. Head(wire) = wire[1] /\ 1 \in DOMAIN wire /\ wire[1] \in Recs
        BY <1>1
    <2> QED BY <2>1 DEF WireOK
<1>3. wire' \in Seq(Recs) /\ \A i \in DOMAIN wire' : i + 1 \in DOMAIN wire /\ wire'[i] = wire[i + 1]
    BY <1>1
<1>4. WireOK'
    BY <1>1, <1>3 DEF WireOK, RecOK
<1>5. /\ shown.answer \in Seq(Recs) /\ shown.meta \in {Null, asked} /\ shown.errorText \in {Null, asked}
      /\ asked \in Nat /\ asked # Null /\ shown.streaming \in BOOLEAN
    BY <1>1, AnswerAssumption DEF Shows, PageOK, Ask!TypeOK
<1>6. shown' = Ask!dispatchSseRecord(r)
    BY <1>2 DEF Ask!ReadRecord
<1> SUFFICES /\ shown' \in Shows /\ AnswerOK' /\ PageOK'
    BY <1>1, <1>3, <1>4 DEF Ask!TypeOK, AskTyped, Unanswered, ReplyOK, Shows
<1>7. r.q = asked /\ r.citations \in Seq(Docs) /\ (r.ev = "final" => Sourced(r, job.prompt) /\ srv = "done")
    BY <1>2 DEF RecOK, Recs
<1>8. CASE r.ev = "meta"
    <2>1. shown' = [shown EXCEPT !.meta = asked]
        BY <1>6, <1>7, <1>8 DEF Ask!dispatchSseRecord
    <2>2. /\ shown' \in Shows /\ shown'.answer = shown.answer /\ shown'.meta = asked
          /\ shown'.errorText = shown.errorText /\ shown'.streaming = shown.streaming
        BY <1>1, <1>5, <2>1 DEF Shows
    <2> QED BY <1>1, <2>2 DEF AnswerOK, RecOK, PageOK, Ask!Complete
<1>9. CASE r.ev = "chunk"
    <2>1. PICK a \in Seq(Recs) : a = Append(shown.answer, r)
        <3>1. Append(shown.answer, r) \in Seq(Recs)
            BY <1>5
        <3> QED BY <3>1
    <2>2. /\ \A i \in DOMAIN shown.answer : i \in DOMAIN a /\ a[i] = shown.answer[i]
          /\ \A i \in DOMAIN a : i \in DOMAIN shown.answer \/ a[i] = r
        <3>1. /\ DOMAIN a = 1..Len(shown.answer) + 1 /\ DOMAIN shown.answer = 1..Len(shown.answer)
              /\ Len(shown.answer) \in Nat /\ a[Len(shown.answer) + 1] = r
              /\ \A i \in 1..Len(shown.answer) : a[i] = shown.answer[i]
            BY <1>5, <2>1
        <3> QED BY <3>1
    <2>3. shown' = [shown EXCEPT !.answer = a]
        BY <1>6, <1>9, <2>1 DEF Ask!dispatchSseRecord
    <2>4. /\ shown' \in Shows /\ shown'.answer = a /\ shown'.meta = shown.meta
          /\ shown'.errorText = shown.errorText /\ shown'.streaming = shown.streaming
        BY <1>1, <1>5, <2>1, <2>3 DEF Shows
    <2>5. AnswerOK'
        BY <1>1, <1>7, <1>9, <2>2, <2>4 DEF AnswerOK, RecOK
    <2>6. Ask!Complete => Ask!Complete'
        BY <2>2, <2>4 DEF Ask!Complete
    <2> QED BY <1>1, <2>4, <2>5, <2>6 DEF PageOK
<1>10. CASE r.ev = "final"
    <2>1. PICK a \in Seq(Recs) : a = <<r>>
        <3>1. <<r>> \in Seq(Recs)
            BY <1>2
        <3> QED BY <3>1
    <2>2. PICK c \in Seq(Docs) : c = r.citations
        BY <1>7
    <2>3. shown' = [shown EXCEPT !.answer = a, !.citations = c, !.streaming = FALSE]
        BY <1>6, <1>10, <2>1, <2>2 DEF Ask!dispatchSseRecord
    <2>4. /\ shown' \in Shows /\ shown'.answer = <<r>> /\ shown'.meta = shown.meta
          /\ shown'.errorText = shown.errorText /\ shown'.streaming = FALSE
        BY <1>1, <2>1, <2>3 DEF Shows
    <2>5. DOMAIN shown'.answer = {1} /\ shown'.answer[1] = r
        BY <2>4
    <2>6. AnswerOK'
        BY <1>1, <1>7, <2>5 DEF AnswerOK, RecOK
    <2>7. Ask!Complete'
        BY <1>10, <2>5 DEF Ask!Complete
    <2> QED BY <1>1, <2>4, <2>6, <2>7 DEF PageOK
<1>11. CASE r.ev = "error"
    <2>1. shown' = [shown EXCEPT !.errorText = asked, !.streaming = FALSE]
        BY <1>6, <1>7, <1>11 DEF Ask!dispatchSseRecord
    <2>2. /\ shown' \in Shows /\ shown'.answer = shown.answer /\ shown'.meta = shown.meta
          /\ shown'.errorText = asked /\ shown'.streaming = FALSE
        BY <1>1, <1>5, <2>1 DEF Shows
    <2> QED BY <1>1, <1>5, <2>2 DEF AnswerOK, RecOK, PageOK
<1> QED BY <1>2, <1>8, <1>9, <1>10, <1>11 DEF Recs

LEMMA AskStep == AskInv /\ [Ask!Next]_answer => AskInv'
<1> SUFFICES ASSUME AskInv, [Ask!Next]_answer PROVE AskInv'
    OBVIOUS
<1>1. CASE Ask!Server
    BY <1>1, AbandonInv, FilterReadyInv, SearchInv, RetrieveInv, PromptInv, DeltaInv, FinishInv
       DEF Ask!Server
<1>2. CASE Ask!Browser
    BY <1>2, ResponseInv, ReadRecordInv, ReadEndInv DEF Ask!Browser
<1>3. CASE UNCHANGED answer
    BY <1>3 DEF answer, AskInv, Ask!TypeOK, AskTyped, WireOK, AnswerOK, Unanswered, PageOK, ReplyOK,
                Ask!Complete
<1> QED BY <1>1, <1>2, <1>3, AskedInv, StopInv, AnswerInv, CutOffInv DEF Ask!Next

LEMMA AskSafe == AskInv => Ask!TypeOK /\ ShownIsTheAnswer /\ SourcesWereRead
<1> SUFFICES ASSUME AskInv PROVE Ask!TypeOK /\ ShownIsTheAnswer /\ SourcesWereRead
    OBVIOUS
<1> USE DEF AskInv
<1>1. ShownIsTheAnswer
    BY DEF ShownIsTheAnswer, Ask!ShownIsTheAnswer, AnswerOK, RecOK, PageOK
<1>2. ASSUME Ask!Complete PROVE Sourced(shown.answer[1], job.prompt)
    BY <1>2 DEF Ask!Complete, AnswerOK, RecOK
<1>3. SourcesWereRead
    BY <1>2 DEF SourcesWereRead, Ask!SourcesWereRead, Sourced, ReplyOK, Ask!IsInjective, IsInjective
<1> QED BY <1>1, <1>3

-----------------------------------------------------------------------------
(***************************************************************************)
(* The numbers of the bar.  A stream is wanted exactly as long as one is   *)
(* open or about to be opened again.                                       *)
(***************************************************************************)
LiveInv == Live!TypeOK /\ (timer => started)

LEMMA NumbersAt == \A p : Live!countsAt(p) \in Live!Numbers
  BY DEF Live!countsAt, Live!N, Live!Numbers

LEMMA NumbersComputed ==
    ASSUME NEW seen, NEW n \in Live!computeCounts(seen) PROVE n \in Live!Numbers
<1>1. PICK a \in seen, b \in seen, c \in seen, d \in seen :
          n = [inbox |-> Live!countsAt(a).inbox, in_flight |-> Live!countsAt(b).in_flight,
               trash |-> Live!countsAt(c).trash, errors |-> Live!countsAt(d).errors]
    BY DEF Live!computeCounts
<1> QED BY <1>1, NumbersAt DEF Live!Numbers

\* A new connection, and one whose parts change.
LEMMA ConnectionTyped ==
    ASSUME NEW last \in Live!Numbers \cup {Null}, NEW seen \in SUBSET Live!Places,
           NEW w \in Seq(Live!Numbers), NEW ended \in BOOLEAN
    PROVE  LET c == [last |-> last, seen |-> seen, wire |-> w, ended |-> ended] IN
           c \in Live!Connections /\ c # Null
  BY ConnectionAssumption DEF Live!Connections

LEMMA ConnectionParts ==
    ASSUME NEW k \in Live!Connections
    PROVE  /\ k.last \in Live!Numbers \cup {Null} /\ k.seen \in SUBSET Live!Places
           /\ k.wire \in Seq(Live!Numbers) /\ k.ended \in BOOLEAN /\ k # Null
           /\ k = [last |-> k.last, seen |-> k.seen, wire |-> k.wire, ended |-> k.ended]
  BY ConnectionAssumption DEF Live!Connections

LEMMA LiveInit == Live!Init => LiveInv
  BY NumbersAt DEF Live!Init, LiveInv, Live!TypeOK, Live!Places

\* A connection goes on, and nothing else that is typed with it.
LEMMA GoesOn ==
    ASSUME LiveInv, conn # Null, conn' \in Live!Connections, UNCHANGED <<started, timer>>,
           place' \in Live!Places, live' \in Live!Numbers \cup {Null}, UNCHANGED <<polled, cache, me, blocked>>
    PROVE  LiveInv'
  BY ConnectionAssumption DEF LiveInv, Live!TypeOK

LEMMA LiveStep == LiveInv /\ [Live!Next]_counts => LiveInv'
<1> SUFFICES ASSUME LiveInv, [Live!Next]_counts PROVE LiveInv'
    OBVIOUS
<1> USE DEF LiveInv
<1>1. /\ place \in Live!Places /\ polled \in Live!Numbers /\ live \in Live!Numbers \cup {Null}
      /\ (conn # Null => conn \in Live!Connections)
    BY DEF Live!TypeOK
<1>2. CASE Live!Move
    <2>1. PICK p \in Live!Places : /\ place' = p
                                   /\ conn' = IF conn = Null \/ conn.seen = {} THEN conn
                                              ELSE [conn EXCEPT !.seen = @ \cup {p}]
        BY <1>2 DEF Live!Move
    <2>2. UNCHANGED <<polled, cache, me, started, timer, live, blocked>>
        BY <1>2 DEF Live!Move
    <2>3. CASE conn' = conn
        BY <2>1, <2>2, <2>3 DEF Live!TypeOK
    <2>4. CASE conn # Null /\ conn' = [conn EXCEPT !.seen = @ \cup {p}]
        <3>1. conn' \in Live!Connections
            BY <1>1, <2>1, <2>4 DEF Live!Connections
        <3> QED BY <1>1, <2>1, <2>2, <2>4, <3>1, GoesOn
    <2> QED BY <2>1, <2>3, <2>4
<1>3. CASE Live!PollStarts
    <2>1. conn # Null /\ conn' = [conn EXCEPT !.seen = {place}]
          /\ UNCHANGED <<place, polled, cache, me, started, timer, live, blocked>>
        BY <1>3 DEF Live!PollStarts, Live!Connected
    <2>2. conn' \in Live!Connections
        BY <1>1, <2>1 DEF Live!Connections
    <2> QED BY <1>1, <2>1, <2>2, GoesOn
<1>4. CASE Live!PollEnds
    <2>1. conn # Null /\ UNCHANGED <<place, polled, cache, me, started, timer, live, blocked>>
        BY <1>4 DEF Live!PollEnds, Live!Connected
    <2>2. PICK n \in Live!computeCounts(conn.seen) :
              \/ conn' = [conn EXCEPT !.seen = {}, !.last = n, !.wire = Append(@, n)]
              \/ conn' = [conn EXCEPT !.seen = {}]
        BY <1>4 DEF Live!PollEnds
    <2>3. n \in Live!Numbers
        BY <2>2, NumbersComputed
    <2>4. PICK w \in Seq(Live!Numbers) : w = Append(conn.wire, n)
        <3>1. conn.wire \in Seq(Live!Numbers)
            BY <1>1, <2>1, ConnectionParts
        <3>2. Append(conn.wire, n) \in Seq(Live!Numbers)
            BY <2>3, <3>1, Appended
        <3> QED BY <3>2
    <2>5. conn' \in Live!Connections
        <3>1. CASE conn' = [conn EXCEPT !.seen = {}, !.last = n, !.wire = w]
            BY <1>1, <2>1, <2>3, <2>4, <3>1 DEF Live!Connections
        <3>2. CASE conn' = [conn EXCEPT !.seen = {}]
            BY <1>1, <2>1, <3>2 DEF Live!Connections
        <3> QED BY <2>2, <2>4, <3>1, <3>2
    <2> QED BY <1>1, <2>1, <2>5, GoesOn
<1>5. CASE Live!PollFails
    <2>1. conn # Null /\ UNCHANGED <<place, polled, cache, me, started, timer, live, blocked>>
        BY <1>5 DEF Live!PollFails, Live!Connected
    <2>2. PICK refused \in BOOLEAN : conn' = [conn EXCEPT !.seen = {}, !.ended = refused]
        BY <1>5 DEF Live!PollFails
    <2>3. conn' \in Live!Connections
        BY <1>1, <2>1, <2>2 DEF Live!Connections
    <2> QED BY <1>1, <2>1, <2>3, GoesOn
<1>6. ASSUME Live!connect PROVE conn' \in Live!Connections /\ conn' # Null
    <2>1. PICK w \in Seq(Live!Numbers) : w = <<>>
        <3>1. <<>> \in Seq(Live!Numbers)
            OBVIOUS
        <3> QED BY <3>1
    <2>2. blocked \in BOOLEAN /\ conn' = [last |-> Null, seen |-> {}, wire |-> w, ended |-> blocked]
        BY <1>6, <2>1 DEF Live!connect, Live!TypeOK
    <2> QED BY <2>2, ConnectionTyped
<1>7. CASE Live!SignsInOrOut
    <2>1. /\ me' = ~me /\ started' = me' /\ timer' = FALSE /\ UNCHANGED <<place, polled, cache, live, blocked>>
          /\ me \in BOOLEAN
        BY <1>7 DEF Live!SignsInOrOut, Live!TypeOK
    <2>2. CASE me'
        BY <1>6, <1>7, <2>1, <2>2 DEF Live!SignsInOrOut, Live!TypeOK
    <2>3. CASE ~me'
        <3>1. conn' = Null
            BY <1>7, <2>3 DEF Live!SignsInOrOut
        <3> QED BY <2>1, <2>3, <3>1 DEF Live!TypeOK
    <2> QED BY <2>2, <2>3
<1>8. CASE Live!onmessage
    <2>1. conn # Null /\ conn.wire # <<>> /\ live' = Head(conn.wire) /\ conn' = [conn EXCEPT !.wire = Tail(@)]
          /\ UNCHANGED <<place, polled, cache, me, started, timer, blocked>>
        BY <1>8 DEF Live!onmessage
    <2>2. conn.wire \in Seq(Live!Numbers)
        BY <1>1, <2>1, ConnectionParts
    <2>3. Head(conn.wire) \in Live!Numbers /\ Tail(conn.wire) \in Seq(Live!Numbers)
        BY <2>1, <2>2
    <2>4. PICK w \in Seq(Live!Numbers) : w = Tail(conn.wire)
        BY <2>3
    <2>5. conn' \in Live!Connections
        BY <1>1, <2>1, <2>4 DEF Live!Connections
    <2> QED BY <1>1, <2>1, <2>3, <2>5, GoesOn
<1>9. CASE Live!Breaks
    <2>1. conn # Null /\ UNCHANGED <<place, polled, cache, me, started, timer, live, blocked>>
        BY <1>9 DEF Live!Breaks, Live!Connected
    <2>2. PICK n \in 0..Len(conn.wire) : conn' = [conn EXCEPT !.ended = TRUE, !.wire = SubSeq(@, 1, n)]
        BY <1>9 DEF Live!Breaks
    <2>3. conn.wire \in Seq(Live!Numbers)
        BY <1>1, <2>1, ConnectionParts
    <2>4. PICK w \in Seq(Live!Numbers) : w = SubSeq(conn.wire, 1, n)
        <3>1. SubSeq(conn.wire, 1, n) \in Seq(Live!Numbers)
            BY <2>3
        <3> QED BY <3>1
    <2>5. conn' \in Live!Connections
        BY <1>1, <2>1, <2>2, <2>4 DEF Live!Connections
    <2> QED BY <1>1, <2>1, <2>5, GoesOn
<1>10. CASE Live!onerror
    <2>1. conn # Null /\ conn' = Null /\ timer' = started
          /\ UNCHANGED <<place, polled, cache, me, started, live, blocked>>
        BY <1>10 DEF Live!onerror
    <2> QED BY <2>1 DEF Live!TypeOK
<1>11. CASE Live!Reconnect
    <2>1. timer /\ timer' = FALSE /\ UNCHANGED <<place, polled, cache, me, started, live, blocked>>
        BY <1>11 DEF Live!Reconnect
    <2>2. conn' \in Live!Connections /\ conn' # Null
        BY <1>6, <1>11 DEF Live!Reconnect
    <2> QED BY <2>1, <2>2 DEF Live!TypeOK
<1>12. CASE Live!CacheExpires
    BY <1>12 DEF Live!CacheExpires, Live!TypeOK
<1>13. ASSUME NEW k \in Live!Counts, Live!Refetch(k) PROVE LiveInv'
    <2>1. PICK n : /\ n = IF k = "in_flight" THEN Live!inFlightCount ELSE Live!countsAt(place)[k]
                   /\ polled' = [polled EXCEPT ![k] = n]
                   /\ cache' = IF k = "in_flight" THEN n ELSE cache
        BY <1>13 DEF Live!Refetch
    <2>2. UNCHANGED <<place, me, started, timer, live, conn, blocked>>
        BY <1>13 DEF Live!Refetch
    <2>3. Live!countsAt(place)[k] \in {0, 1} /\ Live!inFlightCount \in {0, 1}
        BY <1>13 DEF Live!countsAt, Live!N, Live!inFlightCount, Live!TypeOK, Live!Counts
    <2>4. n \in {0, 1} /\ polled' \in Live!Numbers
        BY <1>1, <1>13, <2>1, <2>3 DEF Live!Numbers, Live!Counts
    <2> QED BY <2>1, <2>2, <2>4 DEF Live!TypeOK
<1>14. CASE UNCHANGED counts
    BY <1>14 DEF counts, Live!TypeOK
<1> QED BY <1>2, <1>3, <1>4, <1>5, <1>7, <1>8, <1>9, <1>10, <1>11, <1>12, <1>13, <1>14
        DEF Live!Next, Live!Poll, Live!Retry

-----------------------------------------------------------------------------
(***************************************************************************)
(* The list of the inbox.  As long as nothing has come or gone, the pages  *)
(* loaded and the one on its way are what the API would list now, and the  *)
(* next number continues them.                                             *)
(***************************************************************************)
ListOK(loaded) == \A i \in DOMAIN loaded : loaded[i] = List!listPending(i)

Bulks == [ids : Seq(InboxDocs), cursor : Nat \ {0}, running : SUBSET InboxDocs, ok : SUBSET InboxDocs]

ListInv ==
    /\ List!TypeOK
    /\ bulk # Null => bulk \in Bulks
    /\ calm \in BOOLEAN
    /\ calm /\ loading = Null => ListOK(pages)
    /\ calm /\ loading # Null => ListOK(loading.before)
                                 /\ loading.got = List!listPending(Len(loading.before) + 1)

\* A page listed is a page.
LEMMA PageListed ==
    ASSUME pending \subseteq InboxDocs, NEW n \in Nat \ {0}
    PROVE  /\ List!listPending(n) \in List!Pages
           /\ List!listPending(n).page = n
           /\ List!listPending(n).total = Cardinality(pending)
           /\ List!listPending(n).docs \subseteq pending
<1>1. IsFiniteSet(pending) /\ Cardinality(pending) \in Nat
    BY InboxAssumption, FS_Subset, FS_CardinalityType
<1>2. \A S : List!Cardinality(S) = Cardinality(S)
    BY DEF List!Cardinality, Cardinality
<1>3. PICK ds \in SUBSET InboxDocs :
          ds \subseteq pending /\ List!listPending(n) = [page |-> n, total |-> Cardinality(pending), docs |-> ds]
    BY <1>2 DEF List!listPending
<1> QED BY <1>1, <1>3 DEF List!Pages

\* Pages do not overlap: a document has one rank.
LEMMA PagesApart ==
    ASSUME NEW n \in Nat \ {0}, NEW m \in Nat \ {0}, m < n
    PROVE  List!listPending(n).docs \cap List!listPending(m).docs = {}
<1> DEFINE a == m * PageSize
           b == (n - 1) * PageSize
           c == (m - 1) * PageSize
           e == n * PageSize
<1>1. PageSize \in Nat /\ n \in Nat /\ m \in Nat
    BY InboxAssumption
<1>2. a \in Nat /\ b \in Nat /\ c \in Nat /\ e \in Nat /\ a <= b
    <2>1. PICK k \in Nat : n - 1 = m + k
        <3>1. n - 1 - m \in Nat /\ n - 1 = m + (n - 1 - m)
            BY <1>1
        <3> QED BY <3>1
    <2>2. (m + k) * PageSize = m * PageSize + k * PageSize
        BY <1>1, <2>1
    <2>3. m * PageSize \in Nat /\ k * PageSize \in Nat /\ (n - 1) * PageSize \in Nat
          /\ (m - 1) * PageSize \in Nat /\ n * PageSize \in Nat
        <3>1. m - 1 \in Nat /\ n - 1 \in Nat
            BY <1>1
        <3> QED BY <1>1, <2>1, <3>1
    <2> HIDE DEF a, b, c, e
    <2>4. a = m * PageSize /\ b = m * PageSize + k * PageSize
        BY <2>1, <2>2 DEF a, b
    <2>5. a \in Nat /\ b \in Nat /\ c \in Nat /\ e \in Nat
        BY <2>3 DEF a, b, c, e
    <2> QED BY <2>3, <2>4, <2>5
<1> HIDE DEF a, b, c, e
<1>3. ASSUME NEW d, d \in List!listPending(n).docs, d \in List!listPending(m).docs PROVE FALSE
    <2> DEFINE r == List!Cardinality(List!Before(d))
    <2>1. r \in b..e - 1 /\ r \in c..a - 1
        BY <1>3 DEF List!listPending, a, b, c, e
    <2> HIDE DEF r
    <2> QED BY <1>2, <2>1
<1> QED BY <1>3

\* The rows loaded are counted as many as there are documents on the pages.
LEMMA RowsCounted ==
    ASSUME pending \subseteq InboxDocs, NEW loaded \in Seq(List!Pages), ListOK(loaded)
    PROVE  /\ List!loadedRows(loaded) = Cardinality(UNION {loaded[i].docs : i \in DOMAIN loaded})
           /\ UNION {loaded[i].docs : i \in DOMAIN loaded} \subseteq pending
<1> DEFINE k == Len(loaded)
           Step(v, n) == v + List!Cardinality(loaded[n].docs)
           Out(f) == f = [n \in 0..k |-> IF n = 0 THEN 0 ELSE Step(f[n - 1], n)]
           out == CHOOSE f : Out(f)
           step == [n \in 1..k |-> [v \in Nat |-> Step(v, n)]]
<1>1. List!loadedRows(loaded) = out[k]
    BY DEF List!loadedRows
<1>2. k \in Nat /\ DOMAIN loaded = 1..k
    OBVIOUS
<1>3. \A S : List!Cardinality(S) = Cardinality(S)
    BY DEF List!Cardinality, Cardinality
<1>4. ASSUME NEW n \in 1..k
      PROVE  /\ loaded[n].docs \subseteq pending /\ IsFiniteSet(loaded[n].docs)
             /\ Cardinality(loaded[n].docs) \in Nat
             /\ loaded[n] = List!listPending(n)
    <2>1. loaded[n] = List!listPending(n) /\ n \in Nat \ {0}
        BY <1>2 DEF ListOK
    <2>2. loaded[n].docs \subseteq pending
        BY <2>1, PageListed
    <2>3. loaded[n].docs \subseteq InboxDocs
        BY <2>2
    <2>4. IsFiniteSet(loaded[n].docs)
        BY <2>3, InboxAssumption, FS_Subset
    <2> QED BY <2>1, <2>2, <2>4, FS_CardinalityType
<1>5. \A n \in 1..k : \A v \in Nat : Step(v, n) \in Nat
    BY <1>3, <1>4
<1> HIDE DEF Step, k
<1>6. step \in [1..k -> [Nat -> Nat]]
    BY <1>5
<1> DEFINE X == Nat
           base == 0
<1>7. PICK g \in [0..k -> X] :
          g[0] = base /\ \A n \in 1..k : g[n] = step[n][g[n - 1]]
    <2>1. base \in X /\ step \in [1..k -> [X -> X]]
        BY <1>6
    <2>2. k \in Nat
        BY <1>2
    <2> HIDE DEF step, X, base
    <2>3. PICK j, b, Y, st : j = k /\ b = base /\ Y = X /\ st = step
        OBVIOUS
    <2>4. j \in Nat /\ b \in Y /\ st \in [1..j -> [Y -> Y]]
        BY <2>1, <2>2, <2>3
    <2>5. \E f \in [0..j -> Y] : f[0] = b /\ \A n \in 1..j : f[n] = st[n][f[n - 1]]
        BY <2>4, WalkExists
    <2> QED BY <2>3, <2>5
<1>8. ASSUME NEW n \in 1..k PROVE g[n] = Step(g[n - 1], n)
    <2>1. n - 1 \in 0..k
        BY <1>2
    <2>2. g[n - 1] \in Nat
        BY <1>7, <2>1
    <2>3. step[n][g[n - 1]] = Step(g[n - 1], n)
        BY <2>2
    <2> HIDE DEF step
    <2> QED BY <1>7, <2>3
<1>9. Out(g)
    <2> HIDE DEF step
    <2>1. \A n \in 0..k : n = 0 \/ n \in 1..k
        BY <1>2
    <2>2. \A n \in 0..k : g[n] = IF n = 0 THEN 0 ELSE Step(g[n - 1], n)
        BY <1>7, <1>8, <2>1
    <2> QED BY <1>7, <2>2
<1>10. Out(out)
    <2> HIDE DEF Out
    <2> QED BY <1>9
<1>11. /\ out[0] = 0
       /\ \A n \in 1..k : out[n] = Step(out[n - 1], n)
    <2> HIDE DEF out
    <2>1. \A n \in 0..k : out[n] = IF n = 0 THEN 0 ELSE Step(out[n - 1], n)
        BY <1>10
    <2> QED BY <1>2, <2>1
<1> HIDE DEF out, Out, step
<1> DEFINE Seen(n) == UNION {loaded[i].docs : i \in 1..n}
           Good(n) == out[n] = Cardinality(Seen(n)) /\ Seen(n) \subseteq pending
           T == {n \in Nat : n <= k => Good(n)}
<1>12. 0 \in T
    <2>1. Seen(0) = {}
        OBVIOUS
    <2> HIDE DEF Seen
    <2> QED BY <1>11, <2>1, FS_EmptySet
<1>13. ASSUME NEW n \in Nat, n \in T PROVE n + 1 \in T
    <2> SUFFICES ASSUME n + 1 <= k PROVE Good(n + 1)
        BY DEF T
    <2>1. Good(n) /\ n + 1 \in 1..k /\ out[n + 1] = Step(out[n], n + 1)
        BY <1>2, <1>11, <1>13
    <2>2. Seen(n + 1) = Seen(n) \cup loaded[n + 1].docs
        <3>1. 1..n + 1 = 1..n \cup {n + 1}
            OBVIOUS
        <3> QED BY <3>1
    <2>3. Seen(n) \cap loaded[n + 1].docs = {}
        <3>1. ASSUME NEW i \in 1..n PROVE loaded[i].docs \cap loaded[n + 1].docs = {}
            <4>1. /\ i \in 1..k /\ i \in Nat \ {0} /\ n + 1 \in Nat \ {0} /\ i < n + 1
                BY <1>2, <2>1
            <4>2. loaded[i] = List!listPending(i) /\ loaded[n + 1] = List!listPending(n + 1)
                BY <1>4, <2>1, <4>1
            <4>3. List!listPending(n + 1).docs \cap List!listPending(i).docs = {}
                BY <4>1, PagesApart
            <4> QED BY <4>2, <4>3
        <3> QED BY <3>1
    <2> HIDE DEF Seen
    <2>4. IsFiniteSet(Seen(n)) /\ IsFiniteSet(loaded[n + 1].docs) /\ loaded[n + 1].docs \subseteq pending
        <3>1. Seen(n) \subseteq InboxDocs
            BY <2>1
        <3> QED BY <1>4, <2>1, <3>1, InboxAssumption, FS_Subset
    <2>5. Cardinality(Seen(n) \cup loaded[n + 1].docs) = Cardinality(Seen(n)) + Cardinality(loaded[n + 1].docs)
        <3>1. /\ Cardinality(Seen(n)) \in Nat /\ Cardinality(loaded[n + 1].docs) \in Nat
            BY <2>4, FS_CardinalityType
        <3>2. PICK a, b : a = Seen(n) /\ b = loaded[n + 1].docs
            OBVIOUS
        <3>3. Cardinality(a \cup b) = Cardinality(a) + Cardinality(b) - Cardinality(a \cap b)
            BY <2>4, <3>2, FS_Union
        <3>4. Cardinality(a \cap b) = 0
            BY <2>3, <3>2, FS_EmptySet
        <3> QED BY <3>1, <3>2, <3>3, <3>4
    <2>6. out[n + 1] = Cardinality(Seen(n + 1))
        BY <1>3, <2>1, <2>2, <2>5 DEF Step
    <2> QED BY <2>1, <2>2, <2>4, <2>6
<1> HIDE DEF T
<1>14. k \in T
    BY <1>2, <1>12, <1>13, NatSetInduction
<1>15. Good(k)
    BY <1>2, <1>14 DEF T
<1>16. Seen(k) = UNION {loaded[i].docs : i \in DOMAIN loaded}
    BY <1>2
<1> QED BY <1>1, <1>15, <1>16

\* The next number continues the pages; that there is none means that all is loaded.
LEMMA NextPage ==
    ASSUME pending \subseteq InboxDocs, NEW loaded \in Seq(List!Pages), loaded # <<>>
    PROVE  /\ List!nextPageParam(loaded) # Null =>
                  List!nextPageParam(loaded) \in Nat \ {0, 1}
           /\ ListOK(loaded) =>
                  IF List!nextPageParam(loaded) = Null
                  THEN UNION {loaded[i].docs : i \in DOMAIN loaded} = pending
                  ELSE List!nextPageParam(loaded) = Len(loaded) + 1
<1> DEFINE k == Len(loaded)
           p == loaded[k]
           n == List!loadedRows(loaded)
           all0 == UNION {loaded[i].docs : i \in DOMAIN loaded}
<1>1. k \in Nat \ {0} /\ k \in DOMAIN loaded /\ p \in List!Pages
    OBVIOUS
<1>2. p.page \in Nat \ {0} /\ p.total \in Nat
    BY <1>1 DEF List!Pages
<1>3. p.page + 1 \in Nat \ {0, 1} /\ p.page + 1 # Null
    BY <1>2, AnswerAssumption
<1>4. List!nextPageParam(loaded) = IF n >= p.total THEN Null ELSE p.page + 1
    BY DEF List!nextPageParam, List!Last
<1> HIDE DEF k, p, n, all0
<1>5. ASSUME ListOK(loaded)
      PROVE  IF List!nextPageParam(loaded) = Null THEN all0 = pending
             ELSE List!nextPageParam(loaded) = k + 1
    <2>1. p = List!listPending(k)
        BY <1>1, <1>5 DEF ListOK, p
    <2>2. p.page = k /\ p.total = Cardinality(pending)
        BY <1>1, <2>1, PageListed
    <2>3. n = Cardinality(all0) /\ all0 \subseteq pending
        BY <1>5, RowsCounted DEF n, all0
    <2>4. IsFiniteSet(pending) /\ IsFiniteSet(all0)
        BY <2>3, InboxAssumption, FS_Subset
    <2>5. Cardinality(pending) \in Nat /\ Cardinality(all0) \in Nat
        BY <2>4, FS_CardinalityType
    <2>6. CASE n >= p.total
        <3>1. Cardinality(all0) <= Cardinality(pending)
            BY <2>3, <2>4, FS_Subset
        <3>2. Cardinality(all0) = Cardinality(pending)
            BY <2>2, <2>3, <2>5, <2>6, <3>1
        <3>3. all0 = pending
            BY <2>3, <2>4, <3>2, FS_Subset
        <3> QED BY <1>4, <2>6, <3>3
    <2>7. CASE ~(n >= p.total)
        BY <1>3, <1>4, <2>2, <2>7
    <2> QED BY <2>6, <2>7
<1> QED BY <1>3, <1>4, <1>5 DEF k, all0

LEMMA ListInit == List!Init => ListInv
<1> SUFFICES ASSUME List!Init PROVE ListInv
    OBVIOUS
<1>1. pages = <<>> /\ <<>> \in Seq(List!Pages) /\ selected = {} /\ pending \subseteq InboxDocs
      /\ loading = Null /\ bulk = Null /\ calm = FALSE
    BY DEF List!Init
<1>2. List!TypeOK
    BY <1>1 DEF List!TypeOK
<1> QED BY <1>1, <1>2 DEF ListInv

LEMMA VisibleDocs == ASSUME pages \in Seq(List!Pages) PROVE List!visibleIds \subseteq InboxDocs
<1>1. ASSUME NEW i \in DOMAIN pages PROVE pages[i].docs \subseteq InboxDocs
    <2>1. pages[i] \in List!Pages
        OBVIOUS
    <2> QED BY <2>1 DEF List!Pages
<1> QED BY <1>1 DEF List!visibleIds

\* A page is asked for.
LEMMA Loading ==
    ASSUME List!TypeOK, NEW n \in Nat \ {0}, NEW before \in Seq(List!Pages), NEW upTo \in Nat,
           List!Load(n, before, upTo)
    PROVE  /\ loading' \in List!Loads /\ loading' # Null
           /\ loading'.before = before /\ loading'.got = List!listPending(n)
           /\ calm' = IF n = 1 THEN TRUE ELSE calm
<1>1. List!listPending(n) \in List!Pages
    BY PageListed DEF List!TypeOK
<1>2. loading' = [got |-> List!listPending(n), before |-> before, upTo |-> upTo]
    BY DEF List!Load
<1>3. loading' \in List!Loads
    BY <1>1, <1>2 DEF List!Loads
<1> QED BY <1>2, <1>3, InboxAssumption DEF List!Load

\* What the API would list depends on what is pending only.
LEMMA SamePages ==
    ASSUME UNCHANGED pending PROVE \A n : List!listPending(n)' = List!listPending(n)
  BY DEF List!listPending, List!Before

\* The part of the invariant about pages, when pending is as it was.
LEMMA PagesKept ==
    ASSUME UNCHANGED pending, NEW loaded, ListOK(loaded)
    PROVE  \A i \in DOMAIN loaded : loaded[i] = List!listPending(i)'
  BY SamePages DEF ListOK

\* Steps that concern the selection and the bulk approval leave the list as it is.
LEMMA Aside ==
    ASSUME ListInv, UNCHANGED <<pending, pages, loading, calm>>, selected' \subseteq InboxDocs,
           bulk' # Null => bulk' \in Bulks /\ bulk'.running \cup bulk'.ok \subseteq List!ToSet(bulk'.ids)
    PROVE  ListInv'
<1>1. List!TypeOK'
    BY DEF ListInv, List!TypeOK
<1>2. calm /\ loading = Null => ListOK(pages)'
    BY PagesKept DEF ListInv, ListOK
<1>3. calm /\ loading # Null => ListOK(loading.before)'
                                /\ loading.got = List!listPending(Len(loading.before) + 1)'
    <2>1. PICK b, n : b = loading.before /\ n = Len(loading.before) + 1
        OBVIOUS
    <2>2. calm /\ loading # Null => ListOK(b) /\ loading.got = List!listPending(n)
        BY <2>1 DEF ListInv
    <2>3. calm /\ loading # Null => ListOK(b)'
        BY <2>2, PagesKept DEF ListOK
    <2>4. loading' = loading
        OBVIOUS
    <2> QED BY <2>1, <2>2, <2>3, <2>4, SamePages DEF ListOK
<1> QED BY <1>1, <1>2, <1>3 DEF ListInv

LEMMA RefetchInv == ASSUME ListInv, List!Refetch PROVE ListInv'
<1>1. /\ UNCHANGED <<pending, pages, selected, bulk>> /\ pages \in Seq(List!Pages) /\ List!TypeOK
      /\ pending \subseteq InboxDocs /\ calm \in BOOLEAN
    BY DEF List!Refetch, ListInv, List!TypeOK
<1>2. PICK n : n = IF pages = <<>> THEN 1 ELSE Len(pages)
    OBVIOUS
<1>3. n \in Nat /\ List!Load(1, <<>>, n) /\ 1 \in Nat \ {0} /\ <<>> \in Seq(List!Pages)
    BY <1>1, <1>2 DEF List!Refetch
<1>4. PICK none \in Seq(List!Pages) : none = <<>>
    BY <1>3
<1>5. /\ loading' \in List!Loads /\ loading' # Null
      /\ loading'.before = none /\ loading'.got = List!listPending(1) /\ calm' = TRUE
    BY <1>1, <1>3, <1>4, Loading
<1>6. List!TypeOK'
    BY <1>1, <1>5 DEF List!TypeOK
<1>7. Len(loading'.before) + 1 = 1 /\ DOMAIN loading'.before = {}
    BY <1>4, <1>5
<1>8. loading'.got = List!listPending(1)'
    BY <1>1, <1>5, SamePages
<1> QED BY <1>1, <1>5, <1>6, <1>7, <1>8 DEF ListInv, ListOK

LEMMA LoadMoreInv == ASSUME ListInv, List!loadMore PROVE ListInv'
<1>1. /\ UNCHANGED <<pending, pages, selected, bulk>> /\ pages \in Seq(List!Pages) /\ List!TypeOK
      /\ pending \subseteq InboxDocs /\ pages # <<>> /\ loading = Null /\ calm \in BOOLEAN
    BY DEF List!loadMore, ListInv, List!TypeOK
<1>2. PICK n : n = List!nextPageParam(pages) /\ n # Null /\ List!Load(n, pages, Len(pages) + 1)
    BY DEF List!loadMore
<1>3. n \in Nat \ {0, 1} /\ (ListOK(pages) => n = Len(pages) + 1)
    BY <1>1, <1>2, NextPage
<1>4. /\ loading' \in List!Loads /\ loading' # Null
      /\ loading'.before = pages /\ loading'.got = List!listPending(n) /\ calm' = calm
    <2>1. PICK m \in Nat, q \in Nat \ {0} : m = Len(pages) + 1 /\ q = n
        BY <1>1, <1>3
    <2>2. PICK before \in Seq(List!Pages) : before = pages
        BY <1>1
    <2>3. List!Load(q, before, m) /\ q # 1
        BY <1>2, <1>3, <2>1, <2>2
    <2>4. /\ loading' \in List!Loads /\ loading' # Null
          /\ loading'.before = before /\ loading'.got = List!listPending(q) /\ calm' = calm
        BY <1>1, <2>3, Loading
    <2> QED BY <2>1, <2>2, <2>4
<1>5. List!TypeOK'
    BY <1>1, <1>4 DEF List!TypeOK
<1>6. PICK before \in Seq(List!Pages) : before = pages
    BY <1>1
<1>7. ASSUME calm PROVE ListOK(before)' /\ loading'.got = List!listPending(n)' /\ n = Len(before) + 1
    <2>1. ListOK(pages) /\ ListOK(before)
        BY <1>1, <1>6, <1>7 DEF ListInv
    <2>2. n = Len(before) + 1
        BY <1>3, <1>6, <2>1
    <2>3. loading'.got = List!listPending(n)'
        BY <1>1, <1>4, SamePages
    <2> QED BY <1>1, <2>1, <2>2, <2>3, PagesKept DEF ListOK
<1> QED BY <1>1, <1>4, <1>5, <1>6, <1>7 DEF ListInv, ListOK

LEMMA LoadedInv == ASSUME ListInv, List!Loaded PROVE ListInv'
<1>1. /\ UNCHANGED <<pending, selected, bulk>> /\ pages \in Seq(List!Pages) /\ List!TypeOK
      /\ pending \subseteq InboxDocs /\ loading # Null /\ loading \in List!Loads /\ calm \in BOOLEAN
    BY DEF List!Loaded, ListInv, List!TypeOK
<1>2. loading.before \in Seq(List!Pages) /\ loading.got \in List!Pages /\ loading.upTo \in Nat
    BY <1>1 DEF List!Loads
<1>3. PICK before \in Seq(List!Pages), last \in List!Pages : before = loading.before /\ last = loading.got
    BY <1>2
<1>4. PICK got \in Seq(List!Pages) : got = Append(before, last)
    <2>1. Append(before, last) \in Seq(List!Pages)
        BY Appended
    <2> QED BY <2>1
<1>5. /\ got # <<>> /\ Len(got) = Len(before) + 1 /\ Len(before) \in Nat
      /\ \A i \in DOMAIN got : \/ i \in DOMAIN before /\ got[i] = before[i]
                               \/ i = Len(before) + 1 /\ got[i] = last
    <2>1. /\ Len(got) = Len(before) + 1 /\ Len(before) \in Nat
          /\ \A i \in 1..Len(before) : got[i] = before[i]
          /\ got[Len(before) + 1] = last
          /\ DOMAIN before = 1..Len(before) /\ DOMAIN got = 1..Len(before) + 1
        BY <1>4, Appended
    <2> QED BY <2>1
<1>6. calm => ListOK(got)
    <2>1. calm => ListOK(before) /\ last = List!listPending(Len(before) + 1)
        BY <1>1, <1>3 DEF ListInv
    <2> QED BY <1>5, <2>1 DEF ListOK
<1>7. CASE Len(got) < loading.upTo /\ List!nextPageParam(got) # Null
    <2>1. PICK n, m : /\ n = List!nextPageParam(got) /\ n # Null /\ m = loading.upTo
                      /\ List!Load(n, got, m) /\ UNCHANGED pages
        BY <1>2, <1>3, <1>4, <1>7 DEF List!Loaded
    <2>2. n \in Nat \ {0, 1} /\ (ListOK(got) => n = Len(got) + 1)
        BY <1>1, <1>5, <2>1, NextPage
    <2>3. /\ loading' \in List!Loads /\ loading' # Null
          /\ loading'.before = got /\ loading'.got = List!listPending(n) /\ calm' = calm
        <3>1. m \in Nat /\ n # 1
            BY <1>2, <2>1, <2>2
        <3> QED BY <1>1, <2>1, <2>2, <3>1, Loading
    <2>4. List!TypeOK'
        BY <1>1, <2>1, <2>3 DEF List!TypeOK
    <2>5. ASSUME calm PROVE ListOK(got)' /\ loading'.got = List!listPending(n)' /\ n = Len(got) + 1
        <3>1. n = Len(got) + 1
            BY <1>6, <2>2, <2>5
        <3>2. loading'.got = List!listPending(n)'
            BY <1>1, <2>3, SamePages
        <3> QED BY <1>1, <1>6, <2>5, <3>1, <3>2, PagesKept DEF ListOK
    <2> QED BY <1>1, <2>1, <2>3, <2>4, <2>5 DEF ListInv, ListOK
<1>8. CASE ~(Len(got) < loading.upTo /\ List!nextPageParam(got) # Null)
    <2>1. pages' = got /\ loading' = Null /\ calm' = calm
        BY <1>3, <1>4, <1>8 DEF List!Loaded
    <2>2. List!TypeOK'
        BY <1>1, <2>1 DEF List!TypeOK
    <2>3. calm => ListOK(pages)'
        BY <1>1, <1>6, <2>1, PagesKept DEF ListOK
    <2> QED BY <1>1, <2>1, <2>2, <2>3 DEF ListInv
<1> QED BY <1>7, <1>8

\* The bulk approval takes, approves and drops documents of its list.
LEMMA BulkInv ==
    ASSUME ListInv, List!onBulkApprove \/ List!TakeNext \/ List!Approve \/ List!BulkEnds
    PROVE  ListInv'
<1>1. /\ pages \in Seq(List!Pages) /\ pending \subseteq InboxDocs /\ selected \subseteq InboxDocs
      /\ (bulk # Null => bulk \in Bulks /\ bulk.running \cup bulk.ok \subseteq List!ToSet(bulk.ids))
    BY DEF ListInv, List!TypeOK
<1>2. CASE List!onBulkApprove
    <2>1. List!pruneSelection \subseteq InboxDocs
        BY <1>1 DEF List!pruneSelection
    <2>2. PICK ids \in [1..List!Cardinality(List!pruneSelection) -> List!pruneSelection] :
              bulk' = [ids |-> ids, cursor |-> 1, running |-> {}, ok |-> {}]
        BY <1>2 DEF List!onBulkApprove
    <2>3. ids \in Seq(InboxDocs)
        <3>1. PICK n : n = List!Cardinality(List!pruneSelection)
            OBVIOUS
        <3>2. \A S : List!Cardinality(S) = Cardinality(S)
            BY DEF List!Cardinality, Cardinality
        <3>3. n \in Nat
            BY <2>1, <3>1, <3>2, InboxAssumption, FS_Subset, FS_CardinalityType
        <3>4. ids \in [1..n -> InboxDocs]
            BY <2>1, <2>2, <3>1
        <3> QED BY <3>3, <3>4
    <2>4. bulk' \in Bulks /\ bulk'.running \cup bulk'.ok \subseteq List!ToSet(bulk'.ids)
        BY <2>2, <2>3 DEF Bulks
    <2>5. UNCHANGED <<pending, pages, loading, selected, calm>>
        BY <1>2 DEF List!onBulkApprove
    <2> QED BY <1>1, <2>4, <2>5, Aside
<1>3. CASE List!TakeNext
    <2>1. /\ bulk # Null /\ bulk.cursor <= Len(bulk.ids)
          /\ bulk' = [bulk EXCEPT !.cursor = @ + 1, !.running = @ \cup {bulk.ids[bulk.cursor]}]
          /\ UNCHANGED <<pending, pages, loading, selected, calm>>
        BY <1>3 DEF List!TakeNext
    <2>2. bulk.ids \in Seq(InboxDocs) /\ bulk.cursor \in Nat \ {0} /\ bulk.running \subseteq InboxDocs
          /\ bulk.ok \subseteq InboxDocs
        BY <1>1, <2>1 DEF Bulks
    <2>3. PICK d \in InboxDocs : d = bulk.ids[bulk.cursor] /\ d \in List!ToSet(bulk.ids)
        <3>1. bulk.cursor \in DOMAIN bulk.ids
            BY <2>1, <2>2
        <3> QED BY <2>2, <3>1 DEF List!ToSet
    <2>4. PICK c \in Nat \ {0}, r \in SUBSET InboxDocs : c = bulk.cursor + 1 /\ r = bulk.running \cup {d}
        <3>1. bulk.cursor + 1 \in Nat \ {0}
            BY <2>2
        <3>2. bulk.running \cup {d} \in SUBSET InboxDocs
            BY <2>2
        <3> QED BY <3>1, <3>2
    <2>5. bulk' = [bulk EXCEPT !.cursor = c, !.running = r]
        BY <2>1, <2>3, <2>4
    <2>6. bulk' \in Bulks /\ bulk'.running = r /\ bulk'.ok = bulk.ok /\ bulk'.ids = bulk.ids
        BY <1>1, <2>1, <2>4, <2>5 DEF Bulks
    <2>7. bulk'.running \cup bulk'.ok \subseteq List!ToSet(bulk'.ids)
        BY <1>1, <2>1, <2>3, <2>4, <2>6
    <2> QED BY <1>1, <2>1, <2>6, <2>7, Aside
<1>4. CASE List!Approve
    <2>1. bulk # Null /\ UNCHANGED <<pages, loading, selected>>
        BY <1>4 DEF List!Approve
    <2>2. PICK d \in bulk.running :
              \/ /\ pending' = pending \ {d}
                 /\ calm' = (calm /\ d \notin pending)
                 /\ \E ok \in {{}, {d}} :
                      bulk' = [bulk EXCEPT !.running = @ \ {d}, !.ok = @ \cup ok]
              \/ /\ bulk' = [bulk EXCEPT !.running = @ \ {d}]
                 /\ UNCHANGED <<pending, calm>>
        BY <1>4 DEF List!Approve
    <2>3. bulk \in Bulks /\ bulk.running \subseteq InboxDocs /\ bulk.ok \subseteq InboxDocs
        BY <1>1, <2>1 DEF Bulks
    <2>4. PICK r \in SUBSET InboxDocs, ok \in SUBSET InboxDocs :
              /\ r \cup ok \subseteq bulk.running \cup bulk.ok
              /\ bulk' = [bulk EXCEPT !.running = r, !.ok = ok]
        <3>1. CASE \E ok \in {{}, {d}} : bulk' = [bulk EXCEPT !.running = @ \ {d}, !.ok = @ \cup ok]
            <4>1. PICK ok \in {{}, {d}} : bulk' = [bulk EXCEPT !.running = bulk.running \ {d}, !.ok = bulk.ok \cup ok]
                BY <3>1
            <4>2. /\ bulk.running \ {d} \in SUBSET InboxDocs /\ bulk.ok \cup ok \in SUBSET InboxDocs
                  /\ (bulk.running \ {d}) \cup (bulk.ok \cup ok) \subseteq bulk.running \cup bulk.ok
                BY <2>2, <2>3
            <4> QED BY <4>1, <4>2
        <3>2. CASE bulk' = [bulk EXCEPT !.running = @ \ {d}]
            <4>1. bulk' = [bulk EXCEPT !.running = bulk.running \ {d}, !.ok = bulk.ok]
                BY <2>3, <3>2 DEF Bulks
            <4>2. /\ bulk.running \ {d} \in SUBSET InboxDocs /\ bulk.ok \in SUBSET InboxDocs
                  /\ (bulk.running \ {d}) \cup bulk.ok \subseteq bulk.running \cup bulk.ok
                BY <2>3
            <4> QED BY <4>1, <4>2
        <3> QED BY <2>2, <3>1, <3>2
    <2>5. bulk' \in Bulks /\ bulk'.running = r /\ bulk'.ok = ok /\ bulk'.ids = bulk.ids
        BY <2>3, <2>4 DEF Bulks
    <2>6. bulk'.running \cup bulk'.ok \subseteq List!ToSet(bulk'.ids)
        BY <1>1, <2>1, <2>4, <2>5
    <2>7. CASE UNCHANGED <<pending, calm>>
        BY <1>1, <2>1, <2>5, <2>6, <2>7, Aside
    <2>8. CASE pending' = pending \ {d} /\ calm' = (calm /\ d \notin pending)
        <3>1. CASE calm /\ d \notin pending
            <4>1. UNCHANGED <<pending, calm>>
                BY <2>8, <3>1 DEF ListInv
            <4> QED BY <2>7, <4>1
        <3>2. CASE ~(calm /\ d \notin pending)
            <4>1. calm' = FALSE /\ pending' \subseteq InboxDocs
                BY <1>1, <2>8, <3>2
            <4>2. List!TypeOK'
                BY <2>1, <2>6, <4>1 DEF List!TypeOK, ListInv
            <4> QED BY <2>5, <4>1, <4>2 DEF ListInv
        <3> QED BY <3>1, <3>2
    <2> QED BY <2>2, <2>7, <2>8
<1>5. CASE List!BulkEnds
    <2>1. bulk' = Null /\ UNCHANGED <<pending, pages, loading, calm>> /\ selected' \subseteq InboxDocs
        BY <1>1, <1>5 DEF List!BulkEnds
    <2> QED BY <2>1, Aside
<1> QED BY <1>2, <1>3, <1>4, <1>5

LEMMA ListStep == ListInv /\ [List!Next]_inbox => ListInv'
<1> SUFFICES ASSUME ListInv, [List!Next]_inbox PROVE ListInv'
    OBVIOUS
<1>1. /\ pages \in Seq(List!Pages) /\ pending \subseteq InboxDocs /\ selected \subseteq InboxDocs
      /\ (bulk # Null => bulk \in Bulks /\ bulk.running \cup bulk.ok \subseteq List!ToSet(bulk.ids))
      /\ List!visibleIds \subseteq InboxDocs
    BY VisibleDocs DEF ListInv, List!TypeOK
<1>2. CASE List!LoadFails
    <2>1. loading' = Null /\ calm' = FALSE /\ UNCHANGED <<pending, pages, selected, bulk>>
        BY <1>2 DEF List!LoadFails
    <2>2. List!TypeOK'
        BY <2>1 DEF ListInv, List!TypeOK
    <2> QED BY <1>1, <2>1, <2>2 DEF ListInv
<1>3. CASE List!toggleOne \/ List!toggleAll \/ List!clearSelection
    <2>1. UNCHANGED <<pending, pages, loading, bulk, calm>>
        BY <1>3 DEF List!toggleOne, List!toggleAll, List!clearSelection
    <2>2. selected' \subseteq InboxDocs
        BY <1>1, <1>3 DEF List!toggleOne, List!toggleAll, List!clearSelection, List!SymDiff
    <2> QED BY <1>1, <2>1, <2>2, Aside
<1>4. CASE List!OthersMove
    <2>1. calm' = FALSE /\ UNCHANGED <<pages, loading, selected, bulk>> /\ pending' \subseteq InboxDocs
        BY <1>1, <1>4 DEF List!OthersMove, List!SymDiff
    <2>2. List!TypeOK'
        BY <2>1 DEF ListInv, List!TypeOK
    <2> QED BY <1>1, <2>1, <2>2 DEF ListInv
<1>5. CASE UNCHANGED inbox
    BY <1>1, <1>5, Aside DEF inbox
<1> QED BY <1>2, <1>3, <1>4, <1>5, RefetchInv, LoadMoreInv, LoadedInv, BulkInv DEF List!Next

LEMMA ListSafe == ListInv => List!TypeOK /\ NothingWithheld
<1> SUFFICES ASSUME ListInv, calm, loading = Null, pages # <<>>, List!nextPageParam(pages) = Null
             PROVE  List!visibleIds = pending
    BY DEF ListInv, NothingWithheld, List!NothingWithheld
<1>1. pages \in Seq(List!Pages) /\ pending \subseteq InboxDocs /\ ListOK(pages)
    BY DEF ListInv, List!TypeOK
<1> QED BY <1>1, NextPage DEF List!visibleIds

-----------------------------------------------------------------------------
(***************************************************************************)
(* The repair of a reply.  A walk over a text has one outcome, a character *)
(* more takes it one step further, and the closing brackets appended take  *)
(* the open ones away, the innermost first.                                *)
(***************************************************************************)
Open == {"{", "["}
States == [inString : BOOLEAN, escape : BOOLEAN, stack : Seq(Open), mismatch : BOOLEAN]
Walks == {w \in States : w.escape => w.inString}

\* The states a walk over text goes through.
WalkOn(g, text) == /\ g \in [0..Len(text) -> Walks]
                   /\ g[0] = Llm!AtStart
                   /\ \A n \in 1..Len(text) : g[n] = Llm!Walked(g[n - 1], text[n])

LEMMA CutAt ==
    ASSUME NEW X, NEW s \in Seq(X), NEW m \in 1..Len(s)
    PROVE  /\ SubSeq(s, 1, m) # <<>>
           /\ Llm!Last(SubSeq(s, 1, m)) = s[m]
           /\ Llm!Front(SubSeq(s, 1, m)) = SubSeq(s, 1, m - 1)
           /\ SubSeq(s, 1, m - 1) \in Seq(X)
<1>1. PICK t \in Seq(X) : t = SubSeq(s, 1, m) /\ Len(t) = m /\ \A i \in 1..m : t[i] = s[i]
    <2>1. m \in Nat /\ m <= Len(s) /\ Len(s) \in Nat
        OBVIOUS
    <2>2. SubSeq(s, 1, m) \in Seq(X) /\ Len(SubSeq(s, 1, m)) = m
        BY <2>1
    <2>3. \A i \in 1..m : SubSeq(s, 1, m)[i] = s[i]
        BY <2>1
    <2> QED BY <2>2, <2>3
<1>2. PICK u \in Seq(X) : u = SubSeq(s, 1, m - 1) /\ Len(u) = m - 1 /\ \A i \in 1..m - 1 : u[i] = s[i]
    <2>1. m - 1 \in Nat /\ m - 1 <= Len(s) /\ Len(s) \in Nat
        OBVIOUS
    <2>2. SubSeq(s, 1, m - 1) \in Seq(X) /\ Len(SubSeq(s, 1, m - 1)) = m - 1
        BY <2>1
    <2>3. \A i \in 1..m - 1 : SubSeq(s, 1, m - 1)[i] = s[i]
        BY <2>1
    <2> QED BY <2>2, <2>3
<1>3. PICK v \in Seq(X) : v = SubSeq(t, 1, m - 1) /\ Len(v) = m - 1 /\ \A i \in 1..m - 1 : v[i] = t[i]
    <2>1. m - 1 \in Nat /\ m - 1 <= Len(t) /\ Len(t) \in Nat
        BY <1>1
    <2>2. SubSeq(t, 1, m - 1) \in Seq(X) /\ Len(SubSeq(t, 1, m - 1)) = m - 1
        BY <1>1, <2>1
    <2>3. \A i \in 1..m - 1 : SubSeq(t, 1, m - 1)[i] = t[i]
        BY <1>1, <2>1
    <2> QED BY <2>2, <2>3
<1>4. u = v
    BY <1>1, <1>2, <1>3
<1> QED BY <1>1, <1>2, <1>3, <1>4 DEF Llm!Last, Llm!Front

\* One character.
LEMMA OneCharacter ==
    ASSUME NEW w \in Walks, NEW c \in Llm!Characters
    PROVE  Llm!Walked(w, c) \in Walks
<1>1. w \in States /\ w.stack \in Seq(Open)
    BY DEF Walks, States
<1>2. CASE w.escape
    BY <1>1, <1>2 DEF Llm!Walked, Walks, States
<1>3. CASE ~w.escape /\ w.inString
    <2>1. Llm!Walked(w, c) = [w EXCEPT !.escape = (c = "\\"), !.inString = (c # "quote")]
        BY <1>3 DEF Llm!Walked
    <2> QED BY <1>1, <2>1 DEF Walks, States
<1>4. CASE ~w.escape /\ ~w.inString /\ c = "quote"
    <2>1. Llm!Walked(w, c) = [w EXCEPT !.inString = TRUE]
        BY <1>4 DEF Llm!Walked
    <2> QED BY <1>1, <2>1 DEF Walks, States
<1>5. CASE ~w.escape /\ ~w.inString /\ c \in {"{", "["}
    <2>1. PICK s \in Seq(Open) : s = Append(w.stack, c)
        <3>1. c \in Open
            BY <1>5 DEF Open
        <3>2. Append(w.stack, c) \in Seq(Open)
            BY <1>1, <3>1
        <3> QED BY <3>2
    <2>2. Llm!Walked(w, c) = [w EXCEPT !.stack = s]
        BY <1>5, <2>1 DEF Llm!Walked
    <2> QED BY <1>1, <2>2 DEF Walks, States
<1>6. CASE ~w.escape /\ ~w.inString /\ c \in {"}", "]"}
    <2>1. Llm!Walked(w, c) = IF w.stack # <<>> /\ Llm!Last(w.stack) = Llm!Opening[c]
                             THEN [w EXCEPT !.stack = Llm!Front(w.stack)]
                             ELSE [w EXCEPT !.mismatch = TRUE]
        BY <1>6 DEF Llm!Walked
    <2>2. w.stack # <<>> => Llm!Front(w.stack) \in Seq(Open)
        BY <1>1 DEF Llm!Front
    <2>3. CASE w.stack # <<>> /\ Llm!Last(w.stack) = Llm!Opening[c]
        <3>1. PICK s \in Seq(Open) : s = Llm!Front(w.stack)
            BY <2>2, <2>3
        <3>2. Llm!Walked(w, c) = [w EXCEPT !.stack = s]
            BY <2>1, <2>3, <3>1
        <3> QED BY <1>1, <3>2 DEF Walks, States
    <2>4. CASE ~(w.stack # <<>> /\ Llm!Last(w.stack) = Llm!Opening[c])
        <3>1. Llm!Walked(w, c) = [w EXCEPT !.mismatch = TRUE]
            BY <2>1, <2>4
        <3> QED BY <1>1, <3>1 DEF Walks, States
    <2> QED BY <2>3, <2>4
<1>7. CASE ~w.escape /\ ~w.inString /\ c \notin {"quote", "{", "[", "}", "]"}
    BY <1>7 DEF Llm!Walked
<1> QED BY <1>2, <1>3, <1>4, <1>5, <1>6, <1>7

\* A quotation mark ends a string, a comma outside one changes nothing, and a bracket closes
\* the one opened last.
LEMMA QuoteEnds ==
    ASSUME NEW w \in Walks, w.inString, ~w.escape
    PROVE  Llm!Walked(w, "quote") = [w EXCEPT !.inString = FALSE]
<1>1. w \in States
    BY DEF Walks
<1>2. Llm!Walked(w, "quote") = [w EXCEPT !.escape = FALSE, !.inString = FALSE]
    BY DEF Llm!Walked
<1> QED BY <1>1, <1>2 DEF States

LEMMA CommaKeeps ==
    ASSUME NEW w \in Walks, ~Llm!Walked(w, ",").inString
    PROVE  Llm!Walked(w, ",") = w
<1>1. w \in States /\ (w.escape => w.inString)
    BY DEF Walks
<1>2. CASE w.escape
    BY <1>1, <1>2 DEF Llm!Walked, States
<1>3. CASE ~w.escape /\ w.inString
    <2>1. Llm!Walked(w, ",") = [w EXCEPT !.escape = FALSE, !.inString = TRUE]
        BY <1>3 DEF Llm!Walked
    <2> QED BY <1>1, <2>1 DEF States
<1>4. CASE ~w.escape /\ ~w.inString
    BY <1>4 DEF Llm!Walked
<1> QED BY <1>2, <1>3, <1>4

LEMMA BracketCloses ==
    ASSUME NEW w \in Walks, ~w.inString, NEW m \in 1..Len(w.stack), NEW s, s = SubSeq(w.stack, 1, m),
           NEW v, v = [w EXCEPT !.stack = s]
    PROVE  Llm!Walked(v, Llm!Closing[w.stack[m]]) = [w EXCEPT !.stack = SubSeq(w.stack, 1, m - 1)]
<1>1. w \in States /\ ~w.escape /\ w.stack \in Seq(Open)
    BY DEF Walks, States
<1>2. v.stack = s /\ ~v.inString /\ ~v.escape
    BY <1>1 DEF States
<1>3. PICK o \in Open : o = w.stack[m]
    BY <1>1
<1>4. PICK c \in {"}", "]"} : c = Llm!Closing[o] /\ Llm!Opening[c] = o
    BY DEF Open, Llm!Closing, Llm!Opening
<1>5. s # <<>> /\ Llm!Last(s) = o /\ Llm!Front(s) = SubSeq(w.stack, 1, m - 1)
    BY <1>1, <1>3, CutAt
<1>6. Llm!Walked(v, c) = [v EXCEPT !.stack = Llm!Front(s)]
    BY <1>2, <1>4, <1>5 DEF Llm!Walked
<1> QED BY <1>1, <1>3, <1>4, <1>5, <1>6 DEF States

LEMMA StatesExist ==
    ASSUME NEW k \in Nat, NEW base \in Walks, NEW step \in [1..k -> [Walks -> Walks]]
    PROVE  \E f \in [0..k -> Walks] : f[0] = base /\ \A n \in 1..k : f[n] = step[n][f[n - 1]]
  BY WalkExists

\* The walk over a text.
LEMMA TextWalk ==
    ASSUME NEW text \in Seq(Llm!Characters)
    PROVE  \E g : WalkOn(g, text) /\ Llm!Walk(text) = g[Len(text)]
<1> DEFINE k == Len(text)
           Out(f) == f = [n \in 0..k |-> IF n = 0 THEN Llm!AtStart ELSE Llm!Walked(f[n - 1], text[n])]
           out == CHOOSE f : Out(f)
           step == [n \in 1..k |-> [w \in Walks |-> Llm!Walked(w, text[n])]]
<1>1. Llm!Walk(text) = out[k]
    BY DEF Llm!Walk
<1>2. k \in Nat /\ DOMAIN text = 1..k /\ \A n \in 1..k : text[n] \in Llm!Characters
    OBVIOUS
<1> HIDE DEF k
<1>3. step \in [1..k -> [Walks -> Walks]]
    BY <1>2, OneCharacter
<1>4. Llm!AtStart \in Walks
    <2>1. <<>> \in Seq(Open)
        OBVIOUS
    <2> QED BY <2>1 DEF Llm!AtStart, Walks, States
<1>5. PICK g \in [0..k -> Walks] :
          g[0] = Llm!AtStart /\ \A n \in 1..k : g[n] = step[n][g[n - 1]]
    <2> HIDE DEF step
    <2>1. PICK j, b, st : j = k /\ b = Llm!AtStart /\ st = step
        OBVIOUS
    <2>2. j \in Nat /\ b \in Walks /\ st \in [1..j -> [Walks -> Walks]]
        BY <1>2, <1>3, <1>4, <2>1
    <2>3. \E f \in [0..j -> Walks] : f[0] = b /\ \A n \in 1..j : f[n] = st[n][f[n - 1]]
        BY <2>2, StatesExist
    <2> QED BY <2>1, <2>3
<1>6. ASSUME NEW n \in 1..k PROVE g[n] = Llm!Walked(g[n - 1], text[n])
    <2>1. n - 1 \in 0..k
        BY <1>2
    <2>2. g[n - 1] \in Walks
        BY <1>5, <2>1
    <2>3. step[n][g[n - 1]] = Llm!Walked(g[n - 1], text[n])
        BY <2>2
    <2> HIDE DEF step
    <2> QED BY <1>5, <2>3
<1>7. Out(g)
    <2> HIDE DEF step
    <2>1. \A n \in 0..k : n = 0 \/ n \in 1..k
        BY <1>2
    <2>2. \A n \in 0..k : g[n] = IF n = 0 THEN Llm!AtStart ELSE Llm!Walked(g[n - 1], text[n])
        BY <1>5, <1>6, <2>1
    <2> QED BY <1>5, <2>2
<1>8. Out(out)
    <2> HIDE DEF Out
    <2> QED BY <1>7
<1> HIDE DEF step
<1>9. \A n \in 0..k : out[n] = IF n = 0 THEN Llm!AtStart ELSE Llm!Walked(out[n - 1], text[n])
    <2> HIDE DEF out
    <2> QED BY <1>8
<1>10. out[k] = g[k]
    <2> HIDE DEF out, Out
    <2> DEFINE T == {n \in Nat : n <= k => out[n] = g[n]}
    <2>1. 0 \in T
        BY <1>2, <1>5, <1>9
    <2>2. ASSUME NEW n \in Nat, n \in T PROVE n + 1 \in T
        <3> SUFFICES ASSUME n + 1 <= k PROVE out[n + 1] = g[n + 1]
            OBVIOUS
        <3>1. n + 1 \in 1..k /\ n + 1 \in 0..k /\ n + 1 # 0 /\ (n + 1) - 1 = n /\ out[n] = g[n]
            BY <1>2, <2>2
        <3>2. g[n + 1] = Llm!Walked(g[n], text[n + 1])
            BY <1>6, <3>1
        <3>3. out[n + 1] = Llm!Walked(out[n], text[n + 1])
            BY <1>9, <3>1
        <3> QED BY <3>1, <3>2, <3>3
    <2> HIDE DEF T
    <2>3. k \in T
        BY <1>2, <2>1, <2>2, NatSetInduction
    <2> QED BY <1>2, <2>3 DEF T
<1>11. WalkOn(g, text)
    BY <1>5, <1>6 DEF WalkOn, k
<1> QED BY <1>1, <1>10, <1>11 DEF k

\* Walks over a text and over one that begins with it agree so far.
LEMMA WalksAgree ==
    ASSUME NEW s \in Seq(Llm!Characters), NEW t \in Seq(Llm!Characters), Len(s) <= Len(t),
           \A i \in 1..Len(s) : s[i] = t[i],
           NEW g, WalkOn(g, s), NEW h, WalkOn(h, t)
    PROVE  h[Len(s)] = g[Len(s)]
<1> DEFINE T == {n \in Nat : n <= Len(s) => h[n] = g[n]}
<1>1. Len(s) \in Nat /\ Len(t) \in Nat
    OBVIOUS
<1>2. 0 \in T
    BY DEF WalkOn
<1>3. ASSUME NEW n \in Nat, n \in T PROVE n + 1 \in T
    <2> SUFFICES ASSUME n + 1 <= Len(s) PROVE h[n + 1] = g[n + 1]
        OBVIOUS
    <2>1. n + 1 \in 1..Len(s) /\ n + 1 \in 1..Len(t) /\ (n + 1) - 1 = n /\ h[n] = g[n]
        BY <1>1, <1>3
    <2>2. s[n + 1] = t[n + 1]
        BY <2>1
    <2>3. g[n + 1] = Llm!Walked(g[n], s[n + 1])
        BY <2>1 DEF WalkOn
    <2>4. h[n + 1] = Llm!Walked(h[n], t[n + 1])
        BY <2>1 DEF WalkOn
    <2> QED BY <2>1, <2>2, <2>3, <2>4
<1> HIDE DEF T
<1>4. Len(s) \in T
    BY <1>1, <1>2, <1>3, NatSetInduction
<1> QED BY <1>1, <1>4 DEF T

\* A character more is a step more.
LEMMA OneMore ==
    ASSUME NEW text \in Seq(Llm!Characters), NEW c \in Llm!Characters
    PROVE  /\ Llm!Walk(text) \in Walks
           /\ Llm!Walk(Append(text, c)) = Llm!Walked(Llm!Walk(text), c)
<1>1. PICK t \in Seq(Llm!Characters) :
          /\ t = Append(text, c) /\ Len(t) = Len(text) + 1 /\ Len(text) \in Nat
          /\ t[Len(text) + 1] = c
          /\ \A i \in 1..Len(text) : text[i] = t[i]
    <2>1. Append(text, c) \in Seq(Llm!Characters)
        BY Appended
    <2>2. LET w == Append(text, c) IN
          /\ Len(w) = Len(text) + 1 /\ Len(text) \in Nat
          /\ \A i \in 1..Len(text) : w[i] = text[i]
          /\ w[Len(text) + 1] = c
        BY Appended
    <2> QED BY <2>1, <2>2
<1>2. PICK g : WalkOn(g, text) /\ Llm!Walk(text) = g[Len(text)]
    BY TextWalk
<1>3. PICK h : WalkOn(h, t) /\ Llm!Walk(t) = h[Len(t)]
    BY TextWalk
<1>4. h[Len(text)] = g[Len(text)]
    <2>1. t \in Seq(Llm!Characters) /\ Len(text) <= Len(t) /\ \A i \in 1..Len(text) : text[i] = t[i]
        BY <1>1
    <2>2. WalkOn(g, text) /\ WalkOn(h, t)
        BY <1>2, <1>3
    <2> QED BY <2>1, <2>2, WalksAgree
<1>5. Len(text) \in 0..Len(text)
    BY <1>1
<1>6. g[Len(text)] \in Walks
    BY <1>2, <1>5 DEF WalkOn
<1>7. h[Len(t)] = Llm!Walked(h[Len(text)], c)
    <2>1. Len(t) \in 1..Len(t) /\ Len(t) - 1 = Len(text) /\ t[Len(t)] = c
        BY <1>1
    <2> QED BY <1>3, <2>1 DEF WalkOn
<1> QED BY <1>1, <1>2, <1>3, <1>4, <1>6, <1>7

\* The open brackets, closed from the innermost.
Closings(stack) == Llm!Reverse([i \in DOMAIN stack |-> Llm!Closing[stack[i]]])

LEMMA ClosingsAre ==
    ASSUME NEW stack \in Seq(Open)
    PROVE  /\ Closings(stack) \in Seq(Llm!Characters)
           /\ Len(Closings(stack)) = Len(stack)
           /\ \A i \in 1..Len(stack) : Closings(stack)[i] = Llm!Closing[stack[Len(stack) - i + 1]]
<1> DEFINE k == Len(stack)
           c == [i \in DOMAIN stack |-> Llm!Closing[stack[i]]]
<1>1. k \in Nat /\ DOMAIN stack = 1..k /\ \A i \in 1..k : stack[i] \in Open
    OBVIOUS
<1>2. \A o \in Open : Llm!Closing[o] \in Llm!Characters
    BY DEF Open, Llm!Closing, Llm!Characters
<1> HIDE DEF k
<1>3. c \in [1..k -> Llm!Characters]
    BY <1>1, <1>2
<1>4. Len(c) = k /\ \A i \in 1..k : c[i] = Llm!Closing[stack[i]]
    BY <1>1, <1>3
<1> HIDE DEF c
<1>5. Closings(stack) = [i \in 1..k |-> c[(k - i) + 1]]
    BY <1>4 DEF Closings, Llm!Reverse, c
<1>6. \A i \in 1..k : (k - i) + 1 \in 1..k
    BY <1>1
<1>7. Closings(stack) \in [1..k -> Llm!Characters]
    BY <1>3, <1>5, <1>6
<1>8. Closings(stack) \in Seq(Llm!Characters) /\ Len(Closings(stack)) = k
    BY <1>1, <1>7
<1>9. \A i \in 1..k : Closings(stack)[i] = Llm!Closing[stack[k - i + 1]]
    BY <1>4, <1>5, <1>6
<1> QED BY <1>8, <1>9 DEF k

LEMMA Joined ==
    ASSUME NEW X, NEW s \in Seq(X), NEW t \in Seq(X)
    PROVE  /\ s \o t \in Seq(X) /\ Len(s \o t) = Len(s) + Len(t)
           /\ \A i \in 1..Len(s) : (s \o t)[i] = s[i]
           /\ \A i \in 1..Len(t) : (s \o t)[Len(s) + i] = t[i]
    OBVIOUS

\* Closed so, a text outside strings has nothing left open.
LEMMA AllCloses ==
    ASSUME NEW text \in Seq(Llm!Characters), ~Llm!Walk(text).inString, ~Llm!Walk(text).mismatch
    PROVE  /\ text \o Closings(Llm!Walk(text).stack) \in Seq(Llm!Characters)
           /\ Llm!Closed(text \o Closings(Llm!Walk(text).stack))
<1>1. PICK g : WalkOn(g, text) /\ Llm!Walk(text) = g[Len(text)]
    BY TextWalk
<1>2. Len(text) \in Nat /\ Len(text) \in 0..Len(text)
    OBVIOUS
<1>3. PICK w \in Walks : w = Llm!Walk(text)
    BY <1>1, <1>2 DEF WalkOn
<1>4. PICK stack \in Seq(Open) : stack = w.stack
    BY DEF Walks, States
<1>5. PICK k \in Nat : k = Len(stack)
    <2>1. Len(stack) \in Nat
        OBVIOUS
    <2> QED BY <2>1
<1>6. PICK cs \in Seq(Llm!Characters) :
          /\ cs = Closings(stack) /\ Len(cs) = k
          /\ \A i \in 1..k : cs[i] = Llm!Closing[stack[k - i + 1]]
    BY <1>5, ClosingsAre
<1>7. PICK t \in Seq(Llm!Characters) :
          /\ t = text \o cs /\ Len(t) = Len(text) + k
          /\ \A i \in 1..Len(text) : t[i] = text[i]
          /\ \A i \in 1..k : t[Len(text) + i] = cs[i]
    <2>1. text \o cs \in Seq(Llm!Characters)
        BY Joined
    <2>2. /\ Len(text \o cs) = Len(text) + Len(cs)
          /\ \A i \in 1..Len(text) : (text \o cs)[i] = text[i]
          /\ \A i \in 1..Len(cs) : (text \o cs)[Len(text) + i] = cs[i]
        BY Joined
    <2> QED BY <1>6, <2>1, <2>2
<1>8. PICK h : WalkOn(h, t) /\ Llm!Walk(t) = h[Len(t)]
    BY TextWalk
<1>9. h[Len(text)] = w
    <2>1. Len(text) <= Len(t) /\ \A i \in 1..Len(text) : text[i] = t[i]
        BY <1>2, <1>5, <1>7
    <2>2. h[Len(text)] = g[Len(text)]
        BY <1>1, <1>8, <2>1, WalksAgree
    <2> QED BY <1>1, <1>3, <2>2
<1> DEFINE After(i) == h[Len(text) + i] = [w EXCEPT !.stack = SubSeq(stack, 1, k - i)]
           T == {i \in Nat : i <= k => After(i)}
<1>10. 0 \in T
    <2>1. SubSeq(stack, 1, k) = stack
        BY <1>5
    <2>2. w = [w EXCEPT !.stack = stack]
        BY <1>4 DEF Walks, States
    <2>3. Len(text) + 0 = Len(text) /\ k - 0 = k
        BY <1>2, <1>5
    <2> QED BY <1>9, <2>1, <2>2, <2>3
<1>11. ASSUME NEW i \in Nat, i \in T PROVE i + 1 \in T
    <2> SUFFICES ASSUME i + 1 <= k PROVE After(i + 1)
        OBVIOUS
    <2>1. PICK m \in 1..k : m = k - i /\ m = k - (i + 1) + 1 /\ m - 1 = k - (i + 1)
        <3>1. k - i \in 1..k /\ k - i = k - (i + 1) + 1 /\ (k - i) - 1 = k - (i + 1)
            OBVIOUS
        <3> QED BY <3>1
    <2>2. PICK s, v : s = SubSeq(stack, 1, m) /\ v = [w EXCEPT !.stack = s] /\ h[Len(text) + i] = v
        <3>1. After(i)
            BY <1>11
        <3> QED BY <2>1, <3>1
    <2>3. /\ Len(text) + (i + 1) \in 1..Len(t) /\ (Len(text) + (i + 1)) - 1 = Len(text) + i
          /\ i + 1 \in 1..k
        BY <1>2, <1>7
    <2>4. t[Len(text) + (i + 1)] = Llm!Closing[stack[m]]
        BY <1>6, <1>7, <2>1, <2>3
    <2>5. h[Len(text) + (i + 1)] = Llm!Walked(v, Llm!Closing[stack[m]])
        BY <1>8, <2>2, <2>3, <2>4 DEF WalkOn
    <2>6. w \in Walks /\ ~w.inString /\ m \in 1..Len(w.stack) /\ s = SubSeq(w.stack, 1, m)
          /\ v = [w EXCEPT !.stack = s]
        BY <1>3, <1>4, <1>5, <2>1, <2>2
    <2>7. Llm!Walked(v, Llm!Closing[w.stack[m]]) = [w EXCEPT !.stack = SubSeq(w.stack, 1, m - 1)]
        BY <2>6, BracketCloses
    <2> QED BY <1>4, <2>1, <2>5, <2>7
<1> HIDE DEF T, After
<1>12. After(k)
    <2>1. k \in T
        BY <1>10, <1>11, NatSetInduction
    <2> QED BY <2>1 DEF T
<1>13. Llm!Walk(t) = [w EXCEPT !.stack = <<>>]
    <2>1. SubSeq(stack, 1, k - k) = <<>>
        OBVIOUS
    <2> QED BY <1>7, <1>8, <1>12, <2>1 DEF After
<1>14. Llm!Walk(t).stack = <<>> /\ ~Llm!Walk(t).inString /\ ~Llm!Walk(t).mismatch
    BY <1>3, <1>13 DEF Walks, States
<1> QED BY <1>3, <1>4, <1>6, <1>7, <1>14 DEF Llm!Closed

LEMMA NotEmpty == ASSUME NEW X, NEW s \in Seq(X), s # <<>> PROVE Len(s) \in Nat \ {0}
    OBVIOUS

LEMMA SameText ==
    ASSUME NEW X, NEW s \in Seq(X), NEW t \in Seq(X), Len(s) = Len(t), \A i \in 1..Len(s) : s[i] = t[i]
    PROVE  s = t
    OBVIOUS

LEMMA Prefixed ==
    ASSUME NEW X, NEW s \in Seq(X), NEW t \in Seq(X), Len(s) <= Len(t), \A i \in 1..Len(s) : t[i] = s[i]
    PROVE  Llm!IsPrefix(s, t)
<1>1. PICK k \in Nat : k = Len(s)
    <2>1. Len(s) \in Nat
        OBVIOUS
    <2> QED BY <2>1
<1>2. PICK u \in Seq(X) : u = SubSeq(s, 1, k) /\ Len(u) = k /\ \A i \in 1..k : u[i] = s[i]
    <2>1. SubSeq(s, 1, k) \in Seq(X) /\ Len(SubSeq(s, 1, k)) = k
        BY <1>1
    <2>2. \A i \in 1..k : SubSeq(s, 1, k)[i] = s[i]
        BY <1>1
    <2> QED BY <2>1, <2>2
<1>3. PICK v \in Seq(X) : v = SubSeq(t, 1, k) /\ Len(v) = k /\ \A i \in 1..k : v[i] = t[i]
    <2>1. k <= Len(t) /\ Len(t) \in Nat
        BY <1>1
    <2>2. SubSeq(t, 1, k) \in Seq(X) /\ Len(SubSeq(t, 1, k)) = k
        BY <2>1
    <2>3. \A i \in 1..k : SubSeq(t, 1, k)[i] = t[i]
        BY <2>1
    <2> QED BY <2>2, <2>3
<1>4. u = v
    BY <1>1, <1>2, <1>3
<1> QED BY <1>1, <1>2, <1>3, <1>4 DEF Llm!IsPrefix

\* The text that is closed: quoted if a string is open, without a comma left hanging.  It has
\* what is open in the reply, and no string.
Body(text) ==
    LET unquoted == IF Llm!Walk(text).inString THEN Append(text, "quote") ELSE text
    IN  IF unquoted # <<>> /\ Llm!Last(unquoted) = "," THEN Llm!Front(unquoted) ELSE unquoted

LEMMA BodyStands ==
    ASSUME NEW text \in Seq(Llm!Characters)
    PROVE  /\ Body(text) \in Seq(Llm!Characters)
           /\ \/ Llm!IsPrefix(text, Body(text))
              \/ Llm!Last(text) = "," /\ Body(text) = Llm!Front(text)
           /\ ~Llm!Walk(text).escape =>
                  /\ Llm!Walk(Body(text)).stack = Llm!Walk(text).stack
                  /\ Llm!Walk(Body(text)).mismatch = Llm!Walk(text).mismatch
                  /\ ~Llm!Walk(Body(text)).inString
<1>1. "quote" \in Llm!Characters /\ "," \in Llm!Characters /\ "quote" # ","
    BY DEF Llm!Characters
<1>2. PICK w \in Walks : w = Llm!Walk(text)
    BY <1>1, OneMore
<1>3. w \in States /\ (w.escape => w.inString)
    BY DEF Walks
<1>4. CASE w.inString
    <2>1. PICK t \in Seq(Llm!Characters) :
              /\ t = Append(text, "quote") /\ Len(t) = Len(text) + 1 /\ Len(text) \in Nat
              /\ t[Len(text) + 1] = "quote"
              /\ \A i \in 1..Len(text) : t[i] = text[i]
        <3>1. PICK c \in Llm!Characters : c = "quote"
            BY <1>1
        <3>2. Append(text, c) \in Seq(Llm!Characters)
            BY Appended
        <3>3. LET v == Append(text, c) IN
              /\ Len(v) = Len(text) + 1 /\ Len(text) \in Nat
              /\ \A i \in 1..Len(text) : v[i] = text[i]
              /\ v[Len(text) + 1] = c
            BY Appended
        <3> QED BY <3>1, <3>2, <3>3
    <2>2. Llm!Last(t) # ","
        BY <1>1, <2>1 DEF Llm!Last
    <2>3. Body(text) = t
        BY <1>2, <1>4, <2>1, <2>2 DEF Body
    <2>4. Llm!IsPrefix(text, t)
        <3>1. Len(text) <= Len(t)
            BY <2>1
        <3> QED BY <2>1, <3>1, Prefixed
    <2>5. ASSUME ~w.escape PROVE Llm!Walk(t) = [w EXCEPT !.inString = FALSE]
        <3>1. Llm!Walk(t) = Llm!Walked(w, "quote")
            BY <1>1, <1>2, <2>1, OneMore
        <3> QED BY <1>4, <2>5, <3>1, QuoteEnds
    <2> QED BY <1>2, <1>3, <2>3, <2>4, <2>5 DEF States
<1>5. CASE ~w.inString /\ text # <<>> /\ Llm!Last(text) = ","
    <2>1. Body(text) = Llm!Front(text)
        BY <1>2, <1>5 DEF Body
    <2>2. PICK f \in Seq(Llm!Characters) : f = Llm!Front(text) /\ text = Append(f, ",")
        <3>1. PICK k \in Nat : k + 1 = Len(text)
            <4>1. Len(text) \in Nat \ {0}
                BY <1>5, NotEmpty
            <4>2. Len(text) - 1 \in Nat /\ (Len(text) - 1) + 1 = Len(text)
                BY <4>1
            <4> QED BY <4>2
        <3>2. SubSeq(text, 1, k) \in Seq(Llm!Characters) /\ Len(SubSeq(text, 1, k)) = k
            BY <3>1
        <3>3. PICK f \in Seq(Llm!Characters) : f = SubSeq(text, 1, k) /\ Len(f) = k /\ \A i \in 1..k : f[i] = text[i]
            <4>1. \A i \in 1..k : SubSeq(text, 1, k)[i] = text[i]
                BY <3>1
            <4> QED BY <3>2, <4>1
        <3>4. f = Llm!Front(text)
            <4>1. Len(text) - 1 = k
                BY <3>1
            <4> QED BY <3>3, <4>1 DEF Llm!Front
        <3>5. PICK a \in Seq(Llm!Characters) : a = Append(f, ",") /\ Len(a) = k + 1 /\ a[k + 1] = ","
                  /\ \A i \in 1..k : a[i] = f[i]
            <4>1. PICK c \in Llm!Characters : c = ","
                BY <1>1
            <4>2. Append(f, c) \in Seq(Llm!Characters)
                BY Appended
            <4>3. LET a == Append(f, c) IN
                  /\ Len(a) = Len(f) + 1
                  /\ \A i \in 1..Len(f) : a[i] = f[i]
                  /\ a[Len(f) + 1] = c
                BY Appended
            <4> QED BY <3>3, <4>1, <4>2, <4>3
        <3>6. text[k + 1] = ","
            BY <1>5, <3>1 DEF Llm!Last
        <3>7. \A i \in 1..k + 1 : a[i] = text[i]
            <4>1. \A i \in 1..k + 1 : i \in 1..k \/ i = k + 1
                OBVIOUS
            <4> QED BY <3>3, <3>5, <3>6, <4>1
        <3>8. a = text
            <4>1. Len(a) = Len(text) /\ \A i \in 1..Len(a) : a[i] = text[i]
                BY <3>1, <3>5, <3>7
            <4> QED BY <3>5, <4>1, SameText
        <3> QED BY <3>3, <3>4, <3>5, <3>8
    <2>3. Llm!Walk(f) \in Walks /\ w = Llm!Walked(Llm!Walk(f), ",")
        BY <1>1, <1>2, <2>2, OneMore
    <2>4. Llm!Walk(f) = w
        BY <1>5, <2>3, CommaKeeps
    <2> QED BY <1>2, <1>5, <2>1, <2>2, <2>4
<1>6. CASE ~w.inString /\ ~(text # <<>> /\ Llm!Last(text) = ",")
    <2>1. Body(text) = text
        BY <1>2, <1>6 DEF Body
    <2>2. Len(text) \in Nat
        OBVIOUS
    <2>3. Llm!IsPrefix(text, text)
        BY <2>2, Prefixed
    <2> QED BY <1>2, <1>6, <2>1, <2>3
<1> QED BY <1>4, <1>5, <1>6

\* What the repair of a reply comes to.
LEMMA Repaired ==
    ASSUME NEW text \in Seq(Llm!Characters), Llm!repairTruncatedJson(text) # text
    PROVE  LET repaired == Llm!repairTruncatedJson(text) IN
           /\ \/ Llm!IsPrefix(text, repaired)
              \/ Llm!Last(text) = "," /\ Llm!IsPrefix(Llm!Front(text), repaired)
           /\ Llm!Closed(repaired) \/ Llm!CutInEscape(text)
<1>1. PICK w \in Walks : w = Llm!Walk(text) /\ ~w.mismatch
    <2>1. "x" \in Llm!Characters
        BY DEF Llm!Characters
    <2>2. Llm!Walk(text) \in Walks
        BY <2>1, OneMore
    <2> QED BY <2>2 DEF Llm!repairTruncatedJson
<1>2. PICK cs \in Seq(Llm!Characters) : cs = Closings(w.stack)
    <2>1. w.stack \in Seq(Open)
        BY DEF Walks, States
    <2> QED BY <2>1, ClosingsAre
<1>3. PICK body \in Seq(Llm!Characters) :
          /\ body = Body(text)
          /\ \/ Llm!IsPrefix(text, body)
             \/ Llm!Last(text) = "," /\ body = Llm!Front(text)
          /\ ~w.escape => /\ Llm!Walk(body).stack = w.stack
                          /\ Llm!Walk(body).mismatch = w.mismatch
                          /\ ~Llm!Walk(body).inString
    BY <1>1, BodyStands
<1>4. PICK repaired \in Seq(Llm!Characters) :
          /\ repaired = Llm!repairTruncatedJson(text) /\ repaired = body \o cs
          /\ Len(body) <= Len(repaired) /\ Len(body) \in Nat /\ Len(repaired) \in Nat
          /\ \A i \in 1..Len(body) : repaired[i] = body[i]
    <2>1. Llm!repairTruncatedJson(text) = body \o cs
        BY <1>1, <1>2, <1>3 DEF Llm!repairTruncatedJson, Body, Closings
    <2>2. /\ body \o cs \in Seq(Llm!Characters) /\ Len(body \o cs) = Len(body) + Len(cs)
          /\ \A i \in 1..Len(body) : (body \o cs)[i] = body[i]
        BY Joined
    <2>3. Len(body) \in Nat /\ Len(cs) \in Nat
        OBVIOUS
    <2>4. PICK repaired \in Seq(Llm!Characters) : repaired = body \o cs
        BY <2>2
    <2>5. Len(body) <= Len(repaired) /\ Len(repaired) \in Nat
        BY <2>2, <2>3, <2>4
    <2> QED BY <2>1, <2>2, <2>3, <2>4, <2>5
<1>5. Llm!IsPrefix(body, repaired)
    BY <1>4, Prefixed
<1>6. Llm!IsPrefix(text, body) => Llm!IsPrefix(text, repaired)
    <2> SUFFICES ASSUME Llm!IsPrefix(text, body) PROVE Llm!IsPrefix(text, repaired)
        OBVIOUS
    <2>1. Len(text) \in Nat /\ Len(text) <= Len(body) /\ SubSeq(text, 1, Len(text)) = SubSeq(body, 1, Len(text))
        BY DEF Llm!IsPrefix
    <2>2. \A i \in 1..Len(text) : /\ SubSeq(text, 1, Len(text))[i] = text[i]
                                  /\ SubSeq(body, 1, Len(text))[i] = body[i]
        BY <1>4, <2>1
    <2>3. \A i \in 1..Len(text) : i \in 1..Len(body) /\ repaired[i] = text[i]
        BY <1>4, <2>1, <2>2
    <2>4. Len(text) <= Len(repaired)
        BY <1>4, <2>1
    <2> QED BY <2>3, <2>4, Prefixed
<1>7. Llm!Closed(repaired) \/ Llm!CutInEscape(text)
    <2> SUFFICES ASSUME ~w.escape PROVE Llm!Closed(repaired)
        BY <1>1 DEF Llm!CutInEscape
    <2>1. ~Llm!Walk(body).inString /\ ~Llm!Walk(body).mismatch /\ Llm!Walk(body).stack = w.stack
        BY <1>1, <1>3
    <2>2. Llm!Closed(body \o Closings(Llm!Walk(body).stack))
        BY <2>1, AllCloses
    <2> QED BY <1>2, <1>4, <2>1, <2>2
<1> QED BY <1>3, <1>4, <1>5, <1>6, <1>7

-----------------------------------------------------------------------------
(***************************************************************************)
(* Garbled keys.  A recovery takes an object to one that still has what    *)
(* was filed under a key of the schema: what it moves was filed elsewhere. *)
(***************************************************************************)
Names == Llm!AllKeys
Kept(object) == {o \in UNION {[ks -> Names] : ks \in SUBSET Names} :
                    \A f \in Llm!ToSet(Fields) \cap DOMAIN object : f \in DOMAIN o /\ o[f] = f}

LEMMA RecoverKeeps ==
    ASSUME NEW object, NEW o \in Kept(object), NEW f \in Llm!ToSet(Fields)
    PROVE  Llm!Recover(o, f) \in Kept(object)
<1> DEFINE k == Llm!SoleCandidate(o, f)
           like == {x \in DOMAIN o \ Llm!ToSet(Fields) : Prefix[x] = Prefix[f]}
<1>1. CASE f \in DOMAIN o \/ k = Null
    <2>1. Llm!Recover(o, f) = o
        BY <1>1 DEF Llm!Recover
    <2> QED BY <2>1
<1>2. CASE f \notin DOMAIN o /\ k # Null
    <2>1. k \in DOMAIN o \ Llm!ToSet(Fields)
        <3>1. k = IF Llm!Cardinality(like) = 1 THEN CHOOSE x \in like : TRUE ELSE Null
            BY DEF Llm!SoleCandidate
        <3>2. Llm!Cardinality(like) = 1
            BY <1>2, <3>1
        <3>3. Llm!Cardinality({}) = 0
            <4>1. \A S : Llm!Cardinality(S) = Cardinality(S)
                BY DEF Llm!Cardinality, Cardinality
            <4> QED BY <4>1, FS_EmptySet
        <3> HIDE DEF like, k
        <3>4. like # {}
            BY <3>2, <3>3
        <3>5. k \in like
            BY <3>1, <3>2, <3>4
        <3> QED BY <3>5 DEF like
    <2>2. Llm!Recover(o, f) = [g \in (DOMAIN o \ {k}) \cup {f} |-> IF g = f THEN o[k] ELSE o[g]]
        BY <1>2 DEF Llm!Recover
    <2> HIDE DEF k
    <2>3. PICK ks \in SUBSET Names : o \in [ks -> Names]
        BY DEF Kept
    <2>4. f \in Names
        BY DEF Names, Llm!AllKeys
    <2>5. PICK ls \in SUBSET Names : ls = (DOMAIN o \ {k}) \cup {f}
        <3>1. (DOMAIN o \ {k}) \cup {f} \in SUBSET Names
            BY <2>3, <2>4
        <3> QED BY <3>1
    <2>6. PICK new \in [ls -> Names] :
              /\ new = Llm!Recover(o, f)
              /\ \A g \in ls : new[g] = IF g = f THEN o[k] ELSE o[g]
        <3>1. \A g \in ls : (IF g = f THEN o[k] ELSE o[g]) \in Names
            BY <2>1, <2>3, <2>5
        <3>2. [g \in ls |-> IF g = f THEN o[k] ELSE o[g]] \in [ls -> Names]
            BY <3>1
        <3> QED BY <2>2, <2>5, <3>2
    <2>7. ASSUME NEW g \in Llm!ToSet(Fields) \cap DOMAIN object PROVE g \in DOMAIN new /\ new[g] = g
        <3>1. g \in DOMAIN o /\ o[g] = g /\ g # k /\ g # f
            BY <1>2, <2>1 DEF Kept
        <3> QED BY <2>5, <2>6, <3>1
    <2> QED BY <2>6, <2>7 DEF Kept
<1> QED BY <1>1, <1>2

LEMMA RecoveryKeeps ==
    ASSUME NEW object \in Llm!Objects
    PROVE  Llm!recoverKeysForSchema(object) \in Kept(object)
<1> DEFINE k == Len(Fields)
           Out(h) == h = [n \in 0..k |-> IF n = 0 THEN object ELSE Llm!Recover(h[n - 1], Fields[n])]
           out == CHOOSE h : Out(h)
           step == [n \in 1..k |-> [o \in Kept(object) |-> Llm!Recover(o, Fields[n])]]
<1>1. Llm!recoverKeysForSchema(object) = out[k]
    BY DEF Llm!recoverKeysForSchema
<1>2. k \in Nat /\ \A n \in 1..k : Fields[n] \in Llm!ToSet(Fields)
    BY SchemaAssumption DEF Llm!ToSet
<1> HIDE DEF k
<1>3. step \in [1..k -> [Kept(object) -> Kept(object)]]
    BY <1>2, RecoverKeeps
<1>4. object \in Kept(object)
    <2>1. PICK ks \in SUBSET Names : object = [x \in ks |-> x]
        BY DEF Llm!Objects, Names
    <2>2. object \in [ks -> Names] /\ \A x \in ks : object[x] = x
        BY <2>1
    <2> QED BY <2>1, <2>2 DEF Kept
<1>5. PICK g \in [0..k -> Kept(object)] :
          g[0] = object /\ \A n \in 1..k : g[n] = step[n][g[n - 1]]
    <2> HIDE DEF step
    <2>1. PICK j, b, Y, st : j = k /\ b = object /\ Y = Kept(object) /\ st = step
        OBVIOUS
    <2>2. j \in Nat /\ b \in Y /\ st \in [1..j -> [Y -> Y]]
        BY <1>2, <1>3, <1>4, <2>1
    <2>3. \E f \in [0..j -> Y] : f[0] = b /\ \A n \in 1..j : f[n] = st[n][f[n - 1]]
        BY <2>2, WalkExists
    <2> QED BY <2>1, <2>3
<1>6. ASSUME NEW n \in 1..k PROVE g[n] = Llm!Recover(g[n - 1], Fields[n])
    <2>1. n - 1 \in 0..k
        BY <1>2
    <2>2. g[n - 1] \in Kept(object)
        BY <1>5, <2>1
    <2>3. step[n][g[n - 1]] = Llm!Recover(g[n - 1], Fields[n])
        BY <2>2
    <2> HIDE DEF step
    <2> QED BY <1>5, <2>3
<1>7. Out(g)
    <2> HIDE DEF step
    <2>1. \A n \in 0..k : n = 0 \/ n \in 1..k
        BY <1>2
    <2>2. \A n \in 0..k : g[n] = IF n = 0 THEN object ELSE Llm!Recover(g[n - 1], Fields[n])
        BY <1>5, <1>6, <2>1
    <2> QED BY <1>5, <2>2
<1>8. Out(out)
    <2> HIDE DEF Out
    <2> QED BY <1>7
<1> HIDE DEF step
<1>9. \A n \in 0..k : out[n] = IF n = 0 THEN object ELSE Llm!Recover(out[n - 1], Fields[n])
    <2> HIDE DEF out
    <2> QED BY <1>8
<1> HIDE DEF out, Out
<1> DEFINE T == {n \in Nat : n <= k => out[n] \in Kept(object)}
<1>10. 0 \in T
    BY <1>2, <1>4, <1>9
<1>11. ASSUME NEW n \in Nat, n \in T PROVE n + 1 \in T
    <2> SUFFICES ASSUME n + 1 <= k PROVE out[n + 1] \in Kept(object)
        OBVIOUS
    <2>1. n + 1 \in 1..k /\ n + 1 \in 0..k /\ n + 1 # 0 /\ (n + 1) - 1 = n /\ out[n] \in Kept(object)
        BY <1>2, <1>11
    <2>2. out[n + 1] = Llm!Recover(out[n], Fields[n + 1])
        BY <1>9, <2>1
    <2> QED BY <1>2, <2>1, <2>2, RecoverKeeps
<1> HIDE DEF T
<1>12. k \in T
    BY <1>2, <1>10, <1>11, NatSetInduction
<1> QED BY <1>1, <1>2, <1>12 DEF T

-----------------------------------------------------------------------------
(***************************************************************************)
(* One structured answer.                                                  *)
(***************************************************************************)
LlmInv ==
    /\ Llm!TypeOK
    /\ raw \in Seq(Llm!Characters)
    /\ keys \in Llm!Objects

LEMMA NoObject == <<>> \in Llm!Objects /\ <<>> \in Seq(Llm!Characters)
<1>1. PICK ks \in SUBSET Llm!AllKeys : ks = {}
    OBVIOUS
<1>2. [x \in ks |-> x] = <<>>
    BY <1>1
<1>3. [x \in ks |-> x] \in Llm!Objects
    BY DEF Llm!Objects
<1> QED BY <1>2, <1>3

LEMMA LlmInit == Llm!Init => LlmInv
<1> SUFFICES ASSUME Llm!Init PROVE LlmInv
    OBVIOUS
<1>1. Llm!TypeOK
    BY SchemaAssumption DEF Llm!Init, Llm!TypeOK
<1> QED BY <1>1, NoObject DEF Llm!Init, LlmInv

LEMMA ReplyTyped ==
    ASSUME NEW r, r \in Llm!BoundedSeq(Llm!Characters, MaxLength) PROVE r \in Seq(Llm!Characters)
<1>1. PICK n \in 0..MaxLength : r \in [1..n -> Llm!Characters]
    BY DEF Llm!BoundedSeq, Llm!SeqOf
<1> QED BY <1>1

LEMMA LlmStep == LlmInv /\ [Llm!Next]_llm => LlmInv'
<1> SUFFICES ASSUME LlmInv, [Llm!Next]_llm PROVE LlmInv'
    OBVIOUS
<1>1. MaxAttempts \in Nat /\ attempt \in 1..MaxAttempts /\ (result # Null <=> outcome = "done")
    BY SchemaAssumption DEF LlmInv, Llm!TypeOK
<1>2. CASE Llm!Reply
    <2>1. raw' \in Seq(Llm!Characters)
        BY <1>2, ReplyTyped DEF Llm!Reply
    <2> QED BY <1>1, <1>2, <2>1 DEF Llm!Reply, LlmInv, Llm!TypeOK
<1>3. CASE Llm!RequestFails
    BY <1>1, <1>3 DEF Llm!RequestFails, LlmInv, Llm!TypeOK
<1>4. CASE Llm!AskAgain
    <2>1. attempt' \in 1..MaxAttempts
        BY <1>1, <1>4 DEF Llm!AskAgain
    <2>2. /\ outcome = "parsing" /\ outcome' \in {"asking", "unfit"} /\ UNCHANGED result
          /\ raw' = <<>> /\ keys' = <<>>
        BY <1>4 DEF Llm!AskAgain
    <2>3. Llm!TypeOK'
        BY <1>1, <2>1, <2>2 DEF Llm!TypeOK
    <2> QED BY <2>2, <2>3, NoObject DEF LlmInv
<1>5. CASE Llm!Accept
    BY <1>1, <1>5 DEF Llm!Accept, LlmInv, Llm!TypeOK
<1>6. CASE Llm!ToolUse
    <2>1. /\ keys' \in Llm!Objects /\ outcome' = (IF result' = Null THEN "unfit" ELSE "done")
          /\ UNCHANGED <<backend, attempt, raw>>
        BY <1>6 DEF Llm!ToolUse
    <2> QED BY <1>1, <2>1 DEF LlmInv, Llm!TypeOK
<1>7. CASE UNCHANGED llm
    BY <1>7 DEF llm, LlmInv, Llm!TypeOK
<1> QED BY <1>2, <1>3, <1>4, <1>5, <1>6, <1>7 DEF Llm!Next

LEMMA LlmSafe == LlmInv => Llm!TypeOK /\ RescueKeepsTheReply
<1> SUFFICES ASSUME LlmInv PROVE Llm!RescueKeepsTheReply
    BY DEF LlmInv, RescueKeepsTheReply
<1>1. PICK text \in Seq(Llm!Characters), object \in Llm!Objects : text = raw /\ object = keys
    BY DEF LlmInv
<1>2. Llm!repairTruncatedJson(text) # text =>
          /\ \/ Llm!IsPrefix(text, Llm!repairTruncatedJson(text))
             \/ Llm!Last(text) = "," /\ Llm!IsPrefix(Llm!Front(text), Llm!repairTruncatedJson(text))
          /\ Llm!Closed(Llm!repairTruncatedJson(text)) \/ Llm!CutInEscape(text)
    BY Repaired
<1>3. \A f \in Llm!ToSet(Fields) \cap DOMAIN object :
          f \in DOMAIN Llm!recoverKeysForSchema(object) /\ Llm!recoverKeysForSchema(object)[f] = f
    BY RecoveryKeeps DEF Kept
<1> QED BY <1>1, <1>2, <1>3 DEF Llm!RescueKeepsTheReply

-----------------------------------------------------------------------------
(***************************************************************************)
(* The parts together: each keeps its invariant when it moves, and when    *)
(* another part does.                                                      *)
(***************************************************************************)
SumInv == Inv /\ AskInv /\ LiveInv /\ ListInv /\ LlmInv

LEMMA SumInvInit == SumInit => SumInv
  BY InitInv, AskInit, LiveInit, ListInit, LlmInit DEF SumInit, SumInv

LEMMA SumInvStep == SumInv /\ [SumNext]_all => SumInv'
<1> SUFFICES ASSUME SumInv, [SumNext]_all PROVE SumInv'
    OBVIOUS
<1>1. [Next]_vars
    BY DEF SumNext, Loop, Answer, Counts, all, loop, vars
<1>2. [Ask!Next]_answer
    BY DEF SumNext, Loop, Answer, Counts, all
<1>3. [Live!Next]_counts
    BY DEF SumNext, Loop, Answer, Counts, all
<1>4. [List!Next]_inbox
    BY DEF SumNext, Loop, Answer, Counts, all
<1>5. [Llm!Next]_llm
    BY DEF SumNext, Loop, Answer, Counts, all
<1> QED BY <1>1, <1>2, <1>3, <1>4, <1>5, NextInv, AskStep, LiveStep, ListStep, LlmStep DEF SumInv

LEMMA SumInvHolds == SumSpec => []SumInv
  BY SumInvInit, SumInvStep, PTL DEF SumSpec

\* The state of every part is well typed: among it that an answer streams only while its
\* response is read (useAnswerStream), that a lane approves nothing that was not selected
\* (onBulkApprove), and that requests stay within MAX_ATTEMPTS and have a result exactly
\* when they have come to no error (complete).
THEOREM ServicesTypeCorrect == SumSpec => []PartsTypeOK
<1>1. SumInv => PartsTypeOK
    BY AskSafe, ListSafe, LlmSafe DEF SumInv, Inv, LiveInv, PartsTypeOK
<1> QED BY <1>1, SumInvHolds, PTL

\* What the page shows as an answer is the answer to the question asked last, whatever
\* was asked, stopped and cut off before, and at rest it is whole, or an error is shown,
\* unless the user stopped it (useAnswerStream, AiController.answer).
THEOREM TheAnswerIsShown == SumSpec => []ShownIsTheAnswer
<1>1. SumInv => ShownIsTheAnswer
    BY AskSafe DEF SumInv
<1> QED BY <1>1, SumInvHolds, PTL

\* Sources given are distinct documents whose text the model was given, as many as fit, and
\* an answer that claims to have found something has some (resolveCitations).
THEOREM SourcesAreRead == SumSpec => []SourcesWereRead
<1>1. SumInv => SourcesWereRead
    BY AskSafe DEF SumInv
<1> QED BY <1>1, SumInvHolds, PTL

\* If nothing has come or gone since the first page was read and no further page is
\* offered, the list shows every document to review (nextPageParam).
THEOREM ListIsComplete == SumSpec => []NothingWithheld
<1>1. SumInv => NothingWithheld
    BY ListSafe DEF SumInv
<1> QED BY <1>1, SumInvHolds, PTL

\* However a reply was cut off, its repair completes it and closes what was open; whatever
\* keys were garbled, their recovery moves no value filed under a key of the schema
\* (repairTruncatedJson, recoverKeysForSchema).
THEOREM RepliesAreRescued == SumSpec => []RescueKeepsTheReply
<1>1. SumInv => RescueKeepsTheReply
    BY LlmSafe DEF SumInv
<1> QED BY <1>1, SumInvHolds, PTL

=============================================================================

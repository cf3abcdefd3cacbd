------------------------ MODULE RegistryCacheProofs ------------------------
(***************************************************************************)
(* How old an answer of load_all can be, for any number of files, threads  *)
(* and readers, and however threads share readers.  The refresh time of a  *)
(* reader is of no use for that: it is looked at when the registry is in   *)
(* hand already, and another thread may have refreshed the reader since.   *)
(* What bounds the age is the expiry of the shared cache, although its two *)
(* assignments may come apart: what replaces the registry between them, or *)
(* later, is the load of a call that takes no longer than any other.       *)
(***************************************************************************)
EXTENDS RegistryCache, TLAPS

\* What the bucket held at time n, at the latest.
Past(n) == past[IF n > 0 THEN n ELSE 0]

\* Files only grow newer.
HistoryInv ==
  /\ \A m, n \in 0..MaxTime : m <= n => AtLeast(past[n], past[m])
  /\ \A n \in 0..MaxTime : AtLeast(bucket, past[n])

\* A load is under way no longer than MaxLoad, and reads what the bucket holds meanwhile.
LoadInv ==
  \A t \in Threads :
    /\ pc[t] \in {"idle", "get", "take"} => DOMAIN got[t] = {}
    /\ pc[t] = "judge" => got[t] \in Registry \cup {None}
    /\ pc[t] \in {"set", "expire", "refresh"} => DOMAIN got[t] = Files
    /\ pc[t] # "idle" => /\ started[t] \in 0..now
                         /\ now - started[t] <= MaxLoad
                         /\ AtLeast(bucket, asked[t])
                         /\ AtLeast(asked[t], past[started[t]])
    /\ pc[t] # "judge" => \A f \in DOMAIN got[t] : got[t][f] >= asked[t][f]

\* The shared registry is at most one call older than any load that has set it, and
\* one more than the load that put off its expiry.  So is what a thread has taken.
CacheInv ==
  /\ expires <= now + TTL
  /\ expires # Never =>
       applications \in Registry /\ AtLeast(applications, Past(expires - TTL - 2 * MaxLoad))
  /\ \A t \in Threads :
       /\ pc[t] \in {"expire", "refresh"} =>
            applications \in Registry /\ AtLeast(applications, Past(started[t] - MaxLoad))
       /\ pc[t] \in {"take", "judge"} => TTL > 0
       /\ pc[t] = "take" =>
            /\ applications \in Registry
            /\ AtLeast(applications, Past(started[t] - TTL + 1 - 2 * MaxLoad))
       /\ pc[t] = "judge" =>
            /\ got[t] \in Registry
            /\ AtLeast(got[t], Past(started[t] - TTL + 1 - 2 * MaxLoad))

-----------------------------------------------------------------------------
(* Types.                                                                  *)

\* What has been downloaded of all files is a registry.
LEMMA CompleteIsRegistry ==
  ASSUME NEW g \in Partial, DOMAIN g = Files
  PROVE  g \in Registry
BY DEF Partial, Registry

\* Types and the bookkeeping of loads go together: what a thread sets is a registry
\* only because it has downloaded every file.
LEMMA TypeStep == TypeOK /\ LoadInv /\ [Next]_vars => TypeOK'
<1> USE ReaderAssumption, TimeAssumption
<1> SUFFICES ASSUME TypeOK, LoadInv, [Next]_vars PROVE TypeOK'
  OBVIOUS
<1>12. reader' = reader
  BY DEF Next, vars
<1> USE <1>12
<1>1. ASSUME NEW f \in Files, Publish(f) PROVE TypeOK'
  <2>1. bucket' \in Registry
    BY <1>1 DEF Publish, TypeOK, Registry, Version
  <2> QED BY <1>1, <2>1 DEF Publish, TypeOK, cacheVars, histVars
<1>2. CASE Tick
  <2>1. now' \in 0..MaxTime
    BY <1>2 DEF Tick, TypeOK
  <2>2. past' \in [0..MaxTime -> Registry]
    BY <1>2 DEF Tick, TypeOK
  <2> QED BY <1>2, <2>1, <2>2 DEF Tick, TypeOK, cacheVars
<1>3. ASSUME NEW t \in Threads, NEW forced \in BOOLEAN, Call(t, forced) PROVE TypeOK'
  <2>1. now \in Time
    BY DEF TypeOK, Time, Never
  <2> QED BY <1>3, <2>1 DEF Call, Goto, TypeOK, cacheVars
<1>0. None \in Partial /\ Registry \subseteq Partial /\ past[0] \in Registry /\ 0 \in Time
  <2>1. None \in [{} -> Version]
    BY DEF None
  <2>2. None \in Partial /\ Registry \subseteq Partial
    BY <2>1 DEF Partial, Registry
  <2>3. 0 \in 0..MaxTime /\ 0 \in Time
    BY DEF Time, Never
  <2> QED BY <2>2, <2>3 DEF TypeOK
<1>4. ASSUME NEW t \in Threads, Get(t) \/ Take(t) PROVE TypeOK'
  <2>1. CASE Get(t)
    BY <2>1 DEF Get, Goto, TypeOK, cacheVars, histVars
  <2>2. CASE Take(t)
    <3>1. applications \in Partial
      BY <1>0 DEF TypeOK
    <3> QED BY <2>2, <3>1 DEF Take, Goto, TypeOK, cacheVars, histVars
  <2> QED BY <1>4, <2>1, <2>2
<1>11. ASSUME NEW t \in Threads, Judge(t) PROVE TypeOK'
  <2>1. got[t] \in Registry \cup {None}
    BY <1>11 DEF Judge, LoadInv
  <2>2. CASE Leave(t)
    BY <1>0, <1>11, <2>1, <2>2 DEF Judge, Leave, Goto, TypeOK, cacheVars
  <2>3. CASE ~Leave(t)
    BY <1>0, <1>11, <2>3 DEF Judge, Goto, TypeOK, cacheVars
  <2> QED BY <2>2, <2>3
<1>5. ASSUME NEW t \in Threads, NEW f \in Files, Download(t, f) PROVE TypeOK'
  <2>1. got' = [got EXCEPT ![t] = [g \in DOMAIN got[t] \cup {f} |->
                                     IF g = f THEN bucket[f] ELSE got[t][g]]]
    BY <1>5 DEF Download
  <2>2. [g \in DOMAIN got[t] \cup {f} |-> IF g = f THEN bucket[f] ELSE got[t][g]] \in Partial
    <3>1. PICK S \in SUBSET Files : got[t] \in [S -> Version]
      BY DEF TypeOK, Partial
    <3>2. bucket[f] \in Version
      BY DEF TypeOK, Registry
    <3>3. [g \in S \cup {f} |-> IF g = f THEN bucket[f] ELSE got[t][g]] \in [S \cup {f} -> Version]
      BY <3>1, <3>2
    <3>4. S \cup {f} \in SUBSET Files /\ DOMAIN got[t] = S
      BY <3>1
    <3> QED BY <3>3, <3>4 DEF Partial
  <2>3. got' \in [Threads -> Partial]
    BY <2>1, <2>2 DEF TypeOK
  <2>4. pc' \in [Threads -> {"idle", "get", "take", "judge", "load", "set", "expire", "refresh"}]
    BY <1>5 DEF Download, Goto, TypeOK
  <2> QED BY <1>5, <2>3, <2>4 DEF Download, TypeOK, cacheVars, histVars
<1>6. ASSUME NEW t \in Threads, SetApplications(t) PROVE TypeOK'
  <2>1. got[t] \in Registry
    BY <1>6, CompleteIsRegistry DEF SetApplications, LoadInv, TypeOK
  <2> QED BY <1>6, <2>1 DEF SetApplications, Goto, TypeOK, histVars
<1>7. ASSUME NEW t \in Threads, SetExpiry(t) PROVE TypeOK'
  <2>1. now + TTL \in Time
    BY DEF TypeOK, Time, Never
  <2> QED BY <1>7, <2>1 DEF SetExpiry, Goto, TypeOK, histVars
<1>8. ASSUME NEW t \in Threads, Refresh(t) PROVE TypeOK'
  <2>1. got[t] \in Registry
    BY <1>8, CompleteIsRegistry DEF Refresh, LoadInv, TypeOK
  <2>2. reader[t] \in Readers
    BY DEF TypeOK
  <2> QED BY <1>0, <1>8, <2>1, <2>2 DEF Refresh, Leave, Goto, TypeOK, cacheVars
<1>9. ASSUME NEW t \in Threads, LoadFails(t) PROVE TypeOK'
  BY <1>0, <1>9 DEF LoadFails, Leave, Goto, TypeOK, cacheVars
<1>10. CASE UNCHANGED vars
  BY <1>10 DEF vars, TypeOK
<1> QED BY <1>1, <1>2, <1>3, <1>4, <1>5, <1>6, <1>7, <1>8, <1>9, <1>10, <1>11 DEF Next, Load

-----------------------------------------------------------------------------
(* The bookkeeping of loads.                                               *)

\* The order on registries.
LEMMA AtLeastTransitive ==
  ASSUME NEW a \in Registry, NEW b \in Registry, NEW c \in Registry,
         AtLeast(a, b), AtLeast(b, c)
  PROVE  AtLeast(a, c)
<1> SUFFICES ASSUME NEW f \in Files PROVE a[f] >= c[f]
  BY DEF AtLeast
<1>1. a[f] \in Int /\ b[f] \in Int /\ c[f] \in Int
  BY DEF Registry, Version
<1>2. a[f] >= b[f] /\ b[f] >= c[f]
  BY DEF AtLeast
<1> QED BY <1>1, <1>2

\* A registry is as new as itself.
LEMMA AtLeastReflexive ==
  ASSUME NEW a \in Registry
  PROVE  AtLeast(a, a)
BY DEF AtLeast, Registry, Version

\* Publications and the passing of time keep the history in order.
LEMMA HistoryStep == TypeOK /\ HistoryInv /\ [Next]_vars => HistoryInv'
<1> USE TimeAssumption
<1> SUFFICES ASSUME TypeOK, HistoryInv, [Next]_vars PROVE HistoryInv'
  OBVIOUS
<1>1. ASSUME NEW f \in Files, Publish(f) PROVE HistoryInv'
  <2>1. past' = past /\ bucket' = [bucket EXCEPT ![f] = @ + 1]
    BY <1>1 DEF Publish, histVars
  <2>2. \A g \in Files : bucket'[g] >= bucket[g] /\ bucket[g] \in Int /\ bucket'[g] \in Int
    BY <2>1 DEF TypeOK, Registry, Version
  <2>3. ASSUME NEW n \in 0..MaxTime PROVE AtLeast(bucket', past'[n])
    <3> SUFFICES ASSUME NEW g \in Files PROVE bucket'[g] >= past[n][g]
      BY <2>1 DEF AtLeast
    <3>1. bucket[g] >= past[n][g] /\ past[n][g] \in Int
      BY DEF HistoryInv, AtLeast, TypeOK, Registry, Version
    <3> QED BY <2>2, <3>1
  <2> QED BY <2>1, <2>3 DEF HistoryInv
<1>2. CASE Tick
  <2>1. /\ bucket' = bucket
        /\ past' = [n \in 0..MaxTime |-> IF n > now THEN bucket ELSE past[n]]
    BY <1>2 DEF Tick
  <2>2. AtLeast(bucket, bucket) /\ now \in Int
    BY AtLeastReflexive DEF TypeOK
  <2>3. ASSUME NEW m \in 0..MaxTime, NEW n \in 0..MaxTime, m <= n
        PROVE  AtLeast(past'[n], past'[m])
    BY <2>1, <2>2, <2>3 DEF HistoryInv
  <2>4. ASSUME NEW n \in 0..MaxTime PROVE AtLeast(bucket', past'[n])
    BY <2>1, <2>2 DEF HistoryInv
  <2> QED BY <2>3, <2>4 DEF HistoryInv
<1>3. ASSUME UNCHANGED <<past, bucket>> PROVE HistoryInv'
  BY <1>3 DEF HistoryInv
<1>4. ASSUME NEW t \in Threads, Load(t) PROVE UNCHANGED <<past, bucket>>
  BY <1>4 DEF Load, Call, Get, Take, Judge, Download, SetApplications, SetExpiry,
              Refresh, LoadFails, Leave, histVars
<1> QED BY <1>1, <1>2, <1>3, <1>4 DEF Next, vars

\* Each step of a load, and what happens beside it, keeps its bookkeeping.
LEMMA LoadStep == TypeOK /\ HistoryInv /\ LoadInv /\ [Next]_vars => LoadInv'
<1> USE TimeAssumption
<1> SUFFICES ASSUME TypeOK, HistoryInv, LoadInv, [Next]_vars, NEW t \in Threads
             PROVE  /\ pc'[t] \in {"idle", "get", "take"} => DOMAIN got'[t] = {}
                    /\ pc'[t] = "judge" => got'[t] \in Registry \cup {None}
                    /\ pc'[t] \in {"set", "expire", "refresh"} => DOMAIN got'[t] = Files
                    /\ pc'[t] # "idle" => /\ started'[t] \in 0..now'
                                          /\ now' - started'[t] <= MaxLoad
                                          /\ AtLeast(bucket', asked'[t])
                                          /\ AtLeast(asked'[t], past'[started'[t]])
                    /\ pc'[t] # "judge" =>
                         \A f \in DOMAIN got'[t] : got'[t][f] >= asked'[t][f]
  BY DEF LoadInv
<1> DEFINE Goal == /\ pc'[t] \in {"idle", "get", "take"} => DOMAIN got'[t] = {}
                   /\ pc'[t] = "judge" => got'[t] \in Registry \cup {None}
                   /\ pc'[t] \in {"set", "expire", "refresh"} => DOMAIN got'[t] = Files
                   /\ pc'[t] # "idle" => /\ started'[t] \in 0..now'
                                         /\ now' - started'[t] <= MaxLoad
                                         /\ AtLeast(bucket', asked'[t])
                                         /\ AtLeast(asked'[t], past'[started'[t]])
                   /\ pc'[t] # "judge" =>
                         \A f \in DOMAIN got'[t] : got'[t][f] >= asked'[t][f]
<1>0. now \in 0..MaxTime /\ now \in Int
  BY DEF TypeOK
<1>1. ASSUME UNCHANGED <<now, bucket, past, pc[t], started[t], got[t], asked[t]>> PROVE Goal
  BY <1>1 DEF LoadInv
<1>2. ASSUME NEW f \in Files, Publish(f) PROVE Goal
  <2>1. UNCHANGED <<now, past, pc, started, got, asked>>
    BY <1>2 DEF Publish, histVars
  <2>2. ASSUME AtLeast(bucket, asked[t]) PROVE AtLeast(bucket', asked[t])
    <3> SUFFICES ASSUME NEW g \in Files PROVE bucket'[g] >= asked[t][g]
      BY DEF AtLeast
    <3>1. bucket'[g] >= bucket[g] /\ bucket[g] \in Int /\ bucket'[g] \in Int
      BY <1>2 DEF Publish, TypeOK, Registry, Version
    <3>2. bucket[g] >= asked[t][g] /\ asked[t][g] \in Int
      BY <2>2 DEF AtLeast, TypeOK, Registry, Version
    <3> QED BY <3>1, <3>2
  <2> QED BY <2>1, <2>2 DEF LoadInv
<1>3. CASE Tick
  <2>1. /\ UNCHANGED <<bucket, pc, started, got, asked>>
        /\ now' = now + 1
        /\ pc[t] # "idle" => now - started[t] < MaxLoad
        /\ past' = [n \in 0..MaxTime |-> IF n > now THEN bucket ELSE past[n]]
    BY <1>3 DEF Tick
  <2>2. pc[t] # "idle" => past'[started[t]] = past[started[t]] /\ started[t] \in 0..now'
    BY <1>0, <2>1 DEF LoadInv
  <2>3. pc[t] # "idle" => now' - started[t] <= MaxLoad
    BY <1>0, <2>1, <2>2
  <2> QED BY <2>1, <2>2, <2>3 DEF LoadInv
<1>4. ASSUME NEW u \in Threads, Load(u), u # t PROVE Goal
  <2>1. UNCHANGED <<now, bucket, past>>
    BY <1>4 DEF Load, Call, Get, Take, Judge, Download, SetApplications, SetExpiry,
              Refresh, LoadFails, Leave, histVars
  <2>2. UNCHANGED <<pc[t], started[t], got[t], asked[t]>>
    BY <1>4 DEF Load, Call, Get, Take, Judge, Download, SetApplications, SetExpiry,
              Refresh, LoadFails, Leave,
                Goto, histVars, TypeOK
  <2> QED BY <1>1, <2>1, <2>2
<1>5. ASSUME NEW forced \in BOOLEAN, Call(t, forced) PROVE Goal
  <2>1. /\ pc[t] = "idle" /\ pc'[t] \in {"get", "load"}
        /\ started'[t] = now /\ asked'[t] = bucket
        /\ UNCHANGED <<now, bucket, got, past>>
    BY <1>5 DEF Call, Goto, TypeOK
  <2>2. DOMAIN got[t] = {}
    BY <2>1 DEF LoadInv
  <2>3. AtLeast(bucket, bucket) /\ AtLeast(bucket, past[now])
    BY <1>0, AtLeastReflexive DEF TypeOK, HistoryInv
  <2> QED BY <1>0, <2>1, <2>2, <2>3
<1>6. ASSUME NEW f \in Files, Download(t, f) PROVE Goal
  <2>1. /\ pc[t] = "load" /\ pc'[t] = IF DOMAIN got'[t] = Files THEN "set" ELSE "load"
        /\ UNCHANGED <<now, bucket, started, asked, past>>
    BY <1>6 DEF Download, Goto, TypeOK, histVars
  <2>2. got'[t] = [g \in DOMAIN got[t] \cup {f} |-> IF g = f THEN bucket[f] ELSE got[t][g]]
    BY <1>6 DEF Download, TypeOK
  <2>3. bucket[f] >= asked[t][f]
    BY <2>1 DEF LoadInv, AtLeast
  <2>4. \A g \in DOMAIN got'[t] : got'[t][g] >= asked'[t][g]
    BY <2>1, <2>2, <2>3 DEF LoadInv
  <2> QED BY <2>1, <2>4 DEF LoadInv
<1>7. CASE SetApplications(t) \/ SetExpiry(t)
  <2>1. /\ pc[t] \in {"set", "expire"} /\ pc'[t] \in {"expire", "refresh"}
        /\ UNCHANGED <<now, bucket, past, started, got, asked>>
    BY <1>7 DEF SetApplications, SetExpiry, Goto, TypeOK, histVars
  <2> QED BY <2>1 DEF LoadInv
<1>8. CASE Get(t) \/ Take(t)
  <2>1. /\ pc[t] \in {"get", "take"} /\ UNCHANGED <<now, bucket, past, started, asked>>
        /\ pc'[t] \in {"take", "load"} => pc[t] = "get" /\ got'[t] = got[t]
        /\ pc'[t] \in {"take", "load", "judge"}
        /\ pc'[t] = "judge" => got'[t] \in Registry \cup {None}
    BY <1>8 DEF Get, Take, Goto, TypeOK, histVars
  <2>2. DOMAIN got[t] = {} /\ pc[t] # "idle"
    BY <2>1 DEF LoadInv
  <2>3. pc'[t] # "judge" => DOMAIN got'[t] = {}
    BY <2>1, <2>2
  <2> QED BY <2>1, <2>2, <2>3 DEF LoadInv
<1>10. ASSUME Leave(t) PROVE Goal
  <2>1. pc'[t] = "idle" /\ got'[t] = None
    BY <1>10 DEF Leave, Goto, TypeOK
  <2> QED BY <2>1 DEF None
<1>11. CASE Judge(t)
  <2>1. CASE Leave(t)
    BY <1>10, <2>1
  <2>2. CASE ~Leave(t)
    <3>1. /\ pc[t] = "judge" /\ pc'[t] = "load" /\ got'[t] = None
          /\ UNCHANGED <<now, bucket, past, started, asked>>
      BY <1>11, <2>2 DEF Judge, Goto, TypeOK
    <3>2. DOMAIN got'[t] = {}
      BY <3>1 DEF None
    <3> QED BY <3>1, <3>2 DEF LoadInv
  <2> QED BY <2>1, <2>2
<1>12. CASE Refresh(t) \/ LoadFails(t)
  BY <1>10, <1>12 DEF Refresh, LoadFails
<1>9. CASE UNCHANGED vars
  BY <1>1, <1>9 DEF vars, histVars
<1> QED BY <1>2, <1>3, <1>4, <1>5, <1>6, <1>7, <1>8, <1>9, <1>11, <1>12 DEF Next, Load

-----------------------------------------------------------------------------
(* The age of the shared registry.                                         *)

\* What is as new as the bucket was at time n is as new as it was before.
LEMMA PastIsOlder ==
  ASSUME TypeOK, HistoryInv, NEW n \in Int, NEW m \in Int, m <= n, n <= now,
         NEW a \in Registry, AtLeast(a, Past(n))
  PROVE  AtLeast(a, Past(m))
<1> DEFINE i == IF m > 0 THEN m ELSE 0
           j == IF n > 0 THEN n ELSE 0
<1>1. i \in 0..MaxTime /\ j \in 0..MaxTime /\ i <= j
  BY TimeAssumption DEF TypeOK
<1>2. AtLeast(past[j], past[i]) /\ past[i] \in Registry /\ past[j] \in Registry
  BY <1>1 DEF HistoryInv, TypeOK
<1>3. AtLeast(a, past[j])
  BY DEF Past
<1> QED BY <1>2, <1>3, AtLeastTransitive DEF Past

\* History is not rewritten.
LEMMA PastStays ==
  ASSUME TypeOK, [Next]_vars, NEW n \in Int, n <= now
  PROVE  Past(n)' = Past(n)
<1> USE TimeAssumption
<1>1. CASE Tick
  BY <1>1 DEF Tick, Past, TypeOK
<1>2. CASE past' = past
  BY <1>2 DEF Past
<1>3. ASSUME ~Tick PROVE past' = past
  BY <1>3 DEF Next, Load, Publish, Call, Get, Take, Judge, Download, SetApplications,
              SetExpiry, Refresh, LoadFails, Leave, vars, histVars
<1> QED BY <1>1, <1>2, <1>3

\* A registry that was downloaded is as new as the bucket was MaxLoad ago.
LEMMA DownloadedIsNew ==
  ASSUME TypeOK, HistoryInv, LoadInv, NEW t \in Threads, pc[t] \in {"set", "expire", "refresh"}
  PROVE  /\ got[t] \in Registry
         /\ AtLeast(got[t], asked[t])
         /\ AtLeast(got[t], Past(started[t]))
         /\ AtLeast(got[t], Past(now - MaxLoad))
<1> USE TimeAssumption
<1>1. got[t] \in Registry
  BY CompleteIsRegistry DEF LoadInv, TypeOK
<1>2. AtLeast(got[t], asked[t])
  BY DEF LoadInv, AtLeast
<1>3. started[t] \in 0..MaxTime /\ started[t] <= now /\ now - started[t] <= MaxLoad
  BY DEF LoadInv, TypeOK
<1>4. AtLeast(asked[t], past[started[t]]) /\ past[started[t]] \in Registry
      /\ asked[t] \in Registry
  BY <1>3 DEF LoadInv, TypeOK
<1>5. AtLeast(got[t], Past(started[t]))
  BY <1>1, <1>2, <1>3, <1>4, AtLeastTransitive DEF Past
<1>6. now - MaxLoad \in Int /\ started[t] \in Int /\ now - MaxLoad <= started[t]
  BY <1>3 DEF TypeOK
<1> QED BY <1>1, <1>2, <1>3, <1>5, <1>6, PastIsOlder

\* Steps keep the shared registry, and what threads have taken of it, new enough: whoever
\* sets it has just loaded, and whoever takes it has found it unexpired.
LEMMA CacheStep ==
  TypeOK /\ HistoryInv /\ LoadInv /\ CacheInv /\ [Next]_vars => CacheInv'
<1> USE TimeAssumption
<1> SUFFICES ASSUME TypeOK, HistoryInv, LoadInv, CacheInv, [Next]_vars PROVE CacheInv'
  OBVIOUS
<1> DEFINE New(n)    == applications \in Registry /\ AtLeast(applications, Past(n))
           Hand(t, n) == got[t] \in Registry /\ AtLeast(got[t], Past(n))
           Oldest(t) == started[t] - TTL + 1 - 2 * MaxLoad
           Expiry    == /\ expires <= now + TTL
                        /\ expires # Never => New(expires - TTL - 2 * MaxLoad)
           Thread(t) == /\ pc[t] \in {"expire", "refresh"} => New(started[t] - MaxLoad)
                        /\ pc[t] \in {"take", "judge"} => TTL > 0
                        /\ pc[t] = "take" => New(Oldest(t))
                        /\ pc[t] = "judge" => Hand(t, Oldest(t))
<1>1. Expiry /\ (\A t \in Threads : Thread(t))
  BY DEF CacheInv
<1>2. Expiry' /\ (\A t \in Threads : Thread(t)') => CacheInv'
  BY DEF CacheInv
<1>3. now \in Int /\ now' \in Int /\ now <= now' /\ now >= 0
  <2>1. now \in Int /\ now >= 0
    BY DEF TypeOK
  <2>2. CASE Tick
    BY <2>1, <2>2 DEF Tick
  <2>3. ASSUME ~Tick PROVE now' = now
    BY <2>3 DEF Next, Publish, Load, Call, Get, Take, Judge, Download, SetApplications,
                SetExpiry, Refresh, LoadFails, vars
  <2> QED BY <2>1, <2>2, <2>3
<1>4. expires \in Int /\ expires <= now + TTL
  BY <1>1 DEF TypeOK, Time, Never
<1>5. \A t \in Threads : pc[t] # "idle" =>
        started[t] \in Int /\ started[t] <= now /\ now - started[t] <= MaxLoad
  BY DEF LoadInv
<1>6. ASSUME NEW n \in Int, n <= now, New(n), applications' = applications PROVE New(n)'
  BY <1>6, PastStays
<1>7. ASSUME UNCHANGED <<expires, applications>> PROVE Expiry'
  <2> HIDE DEF New, Hand, Oldest, Expiry, Thread
  <2>1. /\ expires - TTL - 2 * MaxLoad \in Int
        /\ expires - TTL - 2 * MaxLoad <= now
        /\ expires <= now' + TTL
    <3>1. PICK m \in Int, n \in Int, e \in Int : m = now /\ n = now' /\ e = expires
      BY <1>3, <1>4
    <3>2. m <= n /\ e <= m + TTL
      BY <1>3, <1>4, <3>1
    <3>3. /\ e - TTL - 2 * MaxLoad \in Int
          /\ e - TTL - 2 * MaxLoad <= m
          /\ e <= n + TTL
      BY <3>2
    <3> QED BY <3>1, <3>3
  <2>2. expires # Never => New(expires - TTL - 2 * MaxLoad)'
    BY <1>1, <1>6, <1>7, <2>1 DEF Expiry
  <2> QED BY <1>7, <2>1, <2>2 DEF Expiry, New, Past, Never
<1>8. ASSUME NEW t \in Threads, UNCHANGED <<pc[t], started[t], got[t], applications>>
      PROVE  Thread(t)'
  <2>1. CASE pc[t] \in {"expire", "refresh"}
    <3>1. started[t] - MaxLoad \in Int /\ started[t] - MaxLoad <= now
      BY <1>3, <1>5, <2>1
    <3>2. New(started[t] - MaxLoad)'
      BY <1>1, <1>6, <1>8, <2>1, <3>1
    <3> QED BY <1>8, <2>1, <3>2 DEF Past
  <2>2. CASE pc[t] \in {"take", "judge"}
    <3>1. TTL > 0 /\ Oldest(t) \in Int /\ Oldest(t) <= now
      BY <1>1, <1>3, <1>5, <2>2
    <3>2. Past(Oldest(t))' = Past(Oldest(t)) /\ Oldest(t)' = Oldest(t)
      <4> HIDE DEF Oldest
      <4>1. \A n \in Int : n <= now => Past(n)' = Past(n)
        BY PastStays
      <4>2. Oldest(t)' = Oldest(t)
        BY <1>8 DEF Oldest
      <4> QED BY <3>1, <4>1, <4>2 DEF Past
    <3> HIDE DEF Oldest
    <3>3. CASE pc[t] = "take"
      BY <1>1, <1>8, <3>1, <3>2, <3>3
    <3>4. CASE pc[t] = "judge"
      BY <1>1, <1>8, <3>1, <3>2, <3>4
    <3> QED BY <2>2, <3>3, <3>4
  <2>3. CASE pc[t] \notin {"expire", "refresh", "take", "judge"}
    BY <1>8, <2>3
  <2> QED BY <2>1, <2>2, <2>3
<1>9. CASE Tick \/ (\E f \in Files : Publish(f)) \/ UNCHANGED vars
  <2>1. UNCHANGED <<applications, expires, pc, started, got>>
    BY <1>9 DEF Tick, Publish, vars, cacheVars
  <2> QED BY <1>2, <1>7, <1>8, <2>1
<1>10. ASSUME NEW u \in Threads, Load(u)
       PROVE  /\ now' = now /\ past' = past
              /\ \A t \in Threads \ {u} : UNCHANGED <<pc[t], started[t], got[t]>>
  BY <1>10 DEF Load, Call, Get, Take, Judge, Download, SetApplications, SetExpiry, Refresh,
               LoadFails, Leave, Goto, histVars, TypeOK
<1>11. ASSUME NEW u \in Threads, Load(u), UNCHANGED <<applications, expires>>, Thread(u)'
       PROVE  CacheInv'
  <2>1. \A t \in Threads \ {u} : Thread(t)'
    BY <1>8, <1>10, <1>11
  <2> QED BY <1>2, <1>7, <1>11, <2>1
<1>12. ASSUME NEW u \in Threads,
              (\E forced \in BOOLEAN : Call(u, forced)) \/ (\E f \in Files : Download(u, f))
                \/ Judge(u) \/ LoadFails(u) \/ Refresh(u)
       PROVE  CacheInv'
  <2>1. UNCHANGED <<applications, expires>>
        /\ pc'[u] \notin {"expire", "refresh", "take", "judge"}
    BY <1>12 DEF Call, Download, Judge, LoadFails, Refresh, Leave, Goto, TypeOK, cacheVars
  <2> QED BY <1>11, <1>12, <2>1 DEF Load
<1>13. ASSUME NEW u \in Threads, Get(u) PROVE CacheInv'
  <2>1. /\ UNCHANGED <<applications, expires, started>>
        /\ pc[u] = "get" /\ pc'[u] \in {"take", "load"}
        /\ pc'[u] = "take" => now < expires
    BY <1>13 DEF Get, Unexpired, Goto, TypeOK, cacheVars
  <2>2. CASE pc'[u] = "load"
    BY <1>11, <1>13, <2>1, <2>2 DEF Load
  <2>3. CASE pc'[u] = "take"
    <3>1. TTL > 0 /\ expires # Never
      BY <1>1, <1>3, <1>4, <2>1, <2>3 DEF Never
    <3>2. /\ Oldest(u) \in Int /\ expires - TTL - 2 * MaxLoad \in Int
          /\ Oldest(u) <= expires - TTL - 2 * MaxLoad
          /\ expires - TTL - 2 * MaxLoad <= now
      BY <1>1, <1>3, <1>4, <1>5, <2>1, <2>3
    <3>3. New(expires - TTL - 2 * MaxLoad)
      BY <1>1, <3>1
    <3>4. AtLeast(applications, Past(Oldest(u)))
      <4> HIDE DEF Oldest
      <4> QED BY <3>2, <3>3, PastIsOlder
    <3>5. Past(Oldest(u))' = Past(Oldest(u))
      BY <1>10, <1>13, <2>1 DEF Past, Load
    <3>6. Thread(u)'
      BY <2>1, <2>3, <3>1, <3>3, <3>4, <3>5
    <3> QED BY <1>11, <1>13, <2>1, <3>6 DEF Load
  <2> QED BY <2>1, <2>2, <2>3
<1>14. ASSUME NEW u \in Threads, Take(u) PROVE CacheInv'
  <2>1. /\ UNCHANGED <<applications, expires, started>> /\ got'[u] = applications
        /\ pc[u] = "take" /\ pc'[u] = "judge"
    BY <1>14 DEF Take, Goto, TypeOK, cacheVars
  <2>2. TTL > 0 /\ New(Oldest(u))
    BY <1>1, <2>1
  <2>3. Past(Oldest(u))' = Past(Oldest(u))
    BY <1>10, <1>14, <2>1 DEF Past, Load
  <2>4. Thread(u)'
    BY <2>1, <2>2, <2>3
  <2> QED BY <1>11, <1>14, <2>1, <2>4 DEF Load
<1>15. ASSUME NEW u \in Threads, SetExpiry(u) PROVE CacheInv'
  <2>1. /\ UNCHANGED <<applications, started>> /\ expires' = now + TTL
        /\ pc[u] = "expire" /\ pc'[u] = "refresh"
    BY <1>15 DEF SetExpiry, Goto, TypeOK, histVars
  <2>2. now' = now /\ past' = past
    BY <1>10, <1>15 DEF Load
  <2>3. \A t \in Threads \ {u} : Thread(t)'
    BY <1>8, <1>10, <1>15, <2>1 DEF Load
  <2>4. Thread(u)'
    BY <1>1, <2>1, <2>2 DEF Past
  <2>5. /\ now - 2 * MaxLoad \in Int /\ started[u] - MaxLoad \in Int
        /\ now - 2 * MaxLoad <= started[u] - MaxLoad /\ started[u] - MaxLoad <= now
    BY <1>3, <1>5, <2>1
  <2>6. New(started[u] - MaxLoad)
    BY <1>1, <2>1
  <2>7. New(now - 2 * MaxLoad)
    BY <2>5, <2>6, PastIsOlder
  <2>8. expires' - TTL - 2 * MaxLoad = now - 2 * MaxLoad /\ expires' <= now' + TTL
    BY <1>3, <2>1, <2>2
  <2>9. Expiry'
    BY <2>1, <2>2, <2>7, <2>8 DEF Past, Never
  <2> QED BY <1>2, <2>3, <2>4, <2>9
<1>16. ASSUME NEW u \in Threads, SetApplications(u) PROVE CacheInv'
  <2>1. /\ applications' = got[u] /\ UNCHANGED <<expires, started, got>>
        /\ pc[u] = "set" /\ pc'[u] = "expire"
    BY <1>16 DEF SetApplications, Goto, TypeOK, histVars
  <2>2. now' = now /\ past' = past /\ \A t \in Threads \ {u} : pc'[t] = pc[t]
    BY <1>10, <1>16 DEF Load
  <2>3. got[u] \in Registry /\ AtLeast(got[u], Past(now - MaxLoad))
    BY <2>1, DownloadedIsNew
  <2>4. ASSUME NEW n \in Int, n <= now - MaxLoad PROVE New(n)'
    <3>1. now - MaxLoad \in Int /\ now - MaxLoad <= now
      BY <1>3
    <3>2. AtLeast(got[u], Past(n))
      BY <2>3, <2>4, <3>1, PastIsOlder
    <3> QED BY <2>1, <2>2, <2>3, <3>2 DEF Past
  <2>5. Expiry'
    <3>1. /\ expires - TTL - 2 * MaxLoad \in Int
          /\ expires - TTL - 2 * MaxLoad <= now - MaxLoad
          /\ expires' <= now' + TTL
      BY <1>1, <1>3, <1>4, <2>1, <2>2
    <3>2. New(expires - TTL - 2 * MaxLoad)'
      BY <2>1, <2>4, <3>1 DEF Past
    <3> QED BY <2>1, <3>1, <3>2 DEF Past
  <2>6. ASSUME NEW t \in Threads, pc'[t] \in {"expire", "refresh"}
        PROVE  New(started[t] - MaxLoad)'
    <3>1. pc[t] # "idle"
      BY <2>1, <2>2, <2>6
    <3>2. started[t] - MaxLoad \in Int /\ started[t] - MaxLoad <= now - MaxLoad
      BY <1>3, <1>5, <3>1
    <3> QED BY <2>1, <2>4, <3>2 DEF Past
  <2>7. ASSUME NEW t \in Threads, pc'[t] = "take"
        PROVE  TTL > 0 /\ New(Oldest(t))'
    <3>1. pc[t] = "take"
      BY <2>1, <2>2, <2>7
    <3>2. TTL > 0 /\ Oldest(t) \in Int /\ Oldest(t) <= now - MaxLoad
      BY <1>1, <1>3, <1>5, <3>1
    <3>3. Oldest(t)' = Oldest(t)
      BY <2>1
    <3> HIDE DEF Oldest, New
    <3>4. \A n \in Int : n <= now - MaxLoad => New(n)'
      BY <2>4
    <3> QED BY <3>2, <3>3, <3>4 DEF New, Past
  <2>8. ASSUME NEW t \in Threads, pc'[t] = "judge"
        PROVE  TTL > 0 /\ Hand(t, Oldest(t))'
    <3>1. pc[t] = "judge"
      BY <2>1, <2>2, <2>8
    <3> QED BY <1>1, <2>1, <2>2, <3>1 DEF Past
  <2>9. \A t \in Threads : Thread(t)'
    BY <2>1, <2>6, <2>7, <2>8 DEF Past
  <2> QED BY <1>2, <2>5, <2>9
<1> QED BY <1>9, <1>12, <1>13, <1>14, <1>15, <1>16 DEF Next, Load

-----------------------------------------------------------------------------
(* Theorems.                                                               *)

\* Nothing is loaded, cached or under way at first.
LEMMA InitInv == Init => TypeOK /\ HistoryInv /\ LoadInv /\ CacheInv
<1> USE TimeAssumption
<1> SUFFICES ASSUME Init PROVE TypeOK /\ HistoryInv /\ LoadInv /\ CacheInv
  OBVIOUS
<1>1. bucket \in Registry
  BY DEF Init, Registry, Version
<1>2. TypeOK
  <2>0. reader \in [Threads -> Readers]
    BY ReaderAssumption DEF Init
  <2>1. None \in Partial
    <3>1. None \in [{} -> Version]
      BY DEF None
    <3> QED BY <3>1 DEF Partial
  <2>2. 0 \in Time /\ Never \in Time /\ 0 \in 0..MaxTime
    BY DEF Time, Never
  <2> QED BY <1>1, <2>0, <2>1, <2>2 DEF Init, TypeOK
<1>3. HistoryInv
  BY <1>1, AtLeastReflexive DEF Init, HistoryInv
<1>4. LoadInv
  BY DEF Init, LoadInv, None
<1>5. CacheInv
  BY DEF Init, CacheInv, Never
<1> QED BY <1>2, <1>3, <1>4, <1>5

\* Types, history, loads and cache together are inductive.
LEMMA Invariant == Spec => [](TypeOK /\ HistoryInv /\ LoadInv /\ CacheInv)
<1>1. TypeOK /\ HistoryInv /\ LoadInv /\ CacheInv /\ [Next]_vars =>
        (TypeOK /\ HistoryInv /\ LoadInv /\ CacheInv)'
  BY TypeStep, HistoryStep, LoadStep, CacheStep
<1> QED BY InitInv, <1>1, PTL DEF Spec

\* Every variable of the cache keeps its type; what threads share is always a whole
\* registry.
THEOREM TypeCorrect == Spec => []TypeOK
BY Invariant, PTL

\* A call that loads answers with files that are no older than the call, so that
\* force_refresh reads the bucket whatever other threads put into the cache.
THEOREM LoadsReadTheBucket == Spec => LoadReadsBucket
<1>1. TypeOK /\ HistoryInv /\ LoadInv /\ CacheInv /\ [Next]_vars =>
        [\A t \in Threads :
           (Answered(t) /\ pc[t] = "refresh") => AtLeast(got[t], asked[t])]_vars
  <2> SUFFICES ASSUME TypeOK, HistoryInv, LoadInv, [Next]_vars,
                      NEW t \in Threads, Answered(t), pc[t] = "refresh"
               PROVE  AtLeast(got[t], asked[t])
    OBVIOUS
  <2> QED BY DownloadedIsNew
<1> QED BY <1>1, Invariant, PTL DEF Spec, LoadReadsBucket

\* No answer is older than the period of the cache and the time of three calls, however
\* many threads share the cache and its readers, and however their assignments interleave.
THEOREM AnswersStayFresh ==
  ASSUME TTL + MaxLoad > 0
  PROVE  Spec => AnswersFreshEnough
<1>1. TypeOK /\ HistoryInv /\ LoadInv /\ CacheInv /\ [Next]_vars =>
        [\A t \in Threads :
           Answered(t) => AtLeast(got[t], Held(TTL + 3 * MaxLoad - 1))]_vars
  <2> SUFFICES ASSUME TypeOK, HistoryInv, LoadInv, CacheInv, [Next]_vars,
                      NEW t \in Threads, Answered(t)
               PROVE  AtLeast(got[t], Held(TTL + 3 * MaxLoad - 1))
    OBVIOUS
  <2> USE TimeAssumption
  <2> DEFINE then   == now - (TTL + 3 * MaxLoad - 1)
             oldest == started[t] - TTL + 1 - 2 * MaxLoad
  <2>1. now \in Int /\ then \in Int /\ Past(then) = Held(TTL + 3 * MaxLoad - 1)
    BY DEF Past, Held, TypeOK
  <2>2. CASE pc[t] = "judge"
    <3>2. got[t] \in Registry /\ AtLeast(got[t], Past(oldest))
      BY <2>2 DEF CacheInv
    <3>3. started[t] \in Int /\ started[t] <= now /\ now - started[t] <= MaxLoad /\ TTL > 0
      BY <2>2 DEF LoadInv, CacheInv
    <3>4. oldest \in Int /\ then <= oldest /\ oldest <= now
      BY <2>1, <3>3
    <3> HIDE DEF oldest, then
    <3>5. AtLeast(got[t], Past(then))
      BY <2>1, <3>2, <3>4, PastIsOlder
    <3> QED BY <2>1, <2>2, <3>5
  <2>3. CASE pc[t] = "refresh"
    <3>2. got[t] \in Registry /\ AtLeast(got[t], Past(now - MaxLoad))
      BY <2>3, DownloadedIsNew
    <3>3. now - MaxLoad \in Int /\ then <= now - MaxLoad /\ now - MaxLoad <= now
      BY <2>1
    <3> HIDE DEF then
    <3>4. AtLeast(got[t], Past(then))
      BY <2>1, <3>2, <3>3, PastIsOlder
    <3> QED BY <2>1, <3>4
  <2> QED BY <2>2, <2>3 DEF Answered
<1> QED BY <1>1, Invariant, PTL DEF Spec, AnswersFreshEnough

=============================================================================

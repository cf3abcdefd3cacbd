--------------------------- MODULE RegistryCache ---------------------------
(***************************************************************************)
(* RegistryReader.load_all over RegistryCache: the threads of one process  *)
(* share the cache, which is held by the class, while each reader object   *)
(* keeps the time of its own last refresh.  Threads may share a reader too:*)
(* the module-level GreenfieldService has one for all of them.  Owners     *)
(* publish new versions of the registry files meanwhile.                   *)
(*                                                                         *)
(* A registry is what it holds of every file: the version downloaded.      *)
(***************************************************************************)
EXTENDS Integers

CONSTANTS
  Files,
  Threads,
  Readers,      \* RegistryReader objects
  Sharing,      \* how threads may share them: thread -> the reader it calls load_all of
  Forcing,      \* readers called with force_refresh, by ComplianceService
  TTL,          \* REGISTRY_CACHE_TTL
  MaxLoad,      \* bound on the time a call of load_all takes
  MaxTime, MaxVersion

ASSUME ReaderAssumption == Sharing \subseteq [Threads -> Readers] /\ Forcing \subseteq Readers
ASSUME TimeAssumption   == TTL \in Nat /\ MaxLoad \in Nat /\ MaxTime \in Nat /\ MaxVersion \in Nat

VARIABLES
  reader,       \* thread -> its reader
  now,
  bucket,       \* file -> version the bucket holds
  applications, \* RegistryCache._applications
  expires,      \* RegistryCache._expires_at
  lastRefresh,  \* reader -> _last_refresh
  pc,           \* thread -> where it is in load_all
  started,      \* thread -> current_time
  force,        \* thread -> force_refresh
  got,          \* thread -> the registry in its hand: cached, or downloaded so far;
                \* what load_all returns
  past,         \* time -> what the bucket held then (history)
  asked,        \* thread -> what the bucket held when it called (history)
  floor         \* reader -> what it held before its last forced refresh (history)

cacheVars == <<applications, expires>>
histVars  == <<past, asked, floor>>
vars      == <<reader, now, bucket, applications, expires, lastRefresh, pc, started, force,
               got, past, asked, floor>>

Version  == 0..MaxVersion
Registry == [Files -> Version]
Partial  == UNION {[S -> Version] : S \in SUBSET Files}
None     == [f \in {} |-> 0]
Never    == -TTL - 1          \* _last_refresh = 0, long before any time
Time     == Never..(MaxTime + TTL)

\* Registry a is nowhere older than b.
AtLeast(a, b) == \A f \in Files : a[f] >= b[f]

TypeOK ==
  /\ reader \in [Threads -> Readers]
  /\ now \in 0..MaxTime
  /\ bucket \in Registry
  /\ applications \in Registry \cup {None}
  /\ expires \in Time
  /\ lastRefresh \in [Readers -> Time]
  /\ pc \in [Threads -> {"idle", "get", "take", "judge", "load", "set", "expire", "refresh"}]
  /\ started \in [Threads -> Time]
  /\ force \in [Threads -> BOOLEAN]
  /\ got \in [Threads -> Partial]
  /\ past \in [0..MaxTime -> Registry]
  /\ asked \in [Threads -> Registry]
  /\ floor \in [Readers -> Registry]

Init ==
  /\ reader \in Sharing
  /\ now = 0
  /\ bucket = [f \in Files |-> 0]
  /\ applications = None
  /\ expires = Never
  /\ lastRefresh = [i \in Readers |-> Never]
  /\ pc = [t \in Threads |-> "idle"]
  /\ started = [t \in Threads |-> 0]
  /\ force = [t \in Threads |-> FALSE]
  /\ got = [t \in Threads |-> None]
  /\ past = [n \in 0..MaxTime |-> bucket]
  /\ asked = [t \in Threads |-> bucket]
  /\ floor = [i \in Readers |-> bucket]

Goto(t, step) == pc' = [pc EXCEPT ![t] = step]

\* The call ends, and its local variables with it.
Leave(t) ==
  /\ Goto(t, "idle")
  /\ started' = [started EXCEPT ![t] = 0]
  /\ force' = [force EXCEPT ![t] = FALSE]
  /\ got' = [got EXCEPT ![t] = None]
  /\ asked' = [asked EXCEPT ![t] = past[0]]

-----------------------------------------------------------------------------
(* The world.                                                              *)

Publish(f) ==
  /\ bucket[f] < MaxVersion
  /\ bucket' = [bucket EXCEPT ![f] = @ + 1]
  /\ UNCHANGED <<now, cacheVars, lastRefresh, pc, started, force, got, histVars>>

\* No call takes longer than MaxLoad.
Tick ==
  /\ now < MaxTime
  /\ \A t \in Threads : pc[t] # "idle" => now - started[t] < MaxLoad
  /\ now' = now + 1
  /\ past' = [n \in 0..MaxTime |-> IF n > now THEN bucket ELSE past[n]]
  /\ UNCHANGED <<bucket, cacheVars, lastRefresh, pc, started, force, got, asked, floor>>

-----------------------------------------------------------------------------
(* load_all.                                                               *)

Call(t, forced) ==
  /\ pc[t] = "idle"
  /\ forced => reader[t] \in Forcing
  /\ started' = [started EXCEPT ![t] = now]
  /\ force' = [force EXCEPT ![t] = forced]
  /\ asked' = [asked EXCEPT ![t] = bucket]
  /\ Goto(t, IF forced THEN "load" ELSE "get")
  /\ UNCHANGED <<now, bucket, cacheVars, lastRefresh, got, past, floor>>

\* Mutant of Unexpired: the cache is left to the refresh time of its readers.
UnexpiredForever == applications # None

\* What RegistryCache.get looks at before it returns something.
Unexpired == applications # None /\ now < expires

Get(t) ==
  /\ pc[t] = "get"
  /\ Goto(t, IF Unexpired THEN "take" ELSE "load")
  /\ UNCHANGED <<now, bucket, cacheVars, lastRefresh, started, force, got, histVars>>

\* return cls._applications, whatever it is by then.
Take(t) ==
  /\ pc[t] = "take"
  /\ got' = [got EXCEPT ![t] = applications]
  /\ Goto(t, "judge")
  /\ UNCHANGED <<now, bucket, cacheVars, lastRefresh, started, force, histVars>>

\* The registry in hand is returned when the reader has refreshed within the period,
\* be it by another thread and since the registry was taken.
Judge(t) ==
  /\ pc[t] = "judge"
  /\ IF started[t] - lastRefresh[reader[t]] < TTL
       THEN Leave(t)
       ELSE /\ Goto(t, "load")
            /\ got' = [got EXCEPT ![t] = None]
            /\ UNCHANGED <<started, force, asked>>
  /\ UNCHANGED <<now, bucket, cacheVars, lastRefresh, past, floor>>

\* The files are downloaded one by one.
Download(t, f) ==
  /\ pc[t] = "load"
  /\ f \notin DOMAIN got[t]
  /\ got' = [got EXCEPT ![t] = [g \in DOMAIN @ \cup {f} |-> IF g = f THEN bucket[f] ELSE @[g]]]
  /\ Goto(t, IF DOMAIN got'[t] = Files THEN "set" ELSE "load")
  /\ UNCHANGED <<now, bucket, cacheVars, lastRefresh, started, force, histVars>>

\* The first assignment of RegistryCache.set.
SetApplications(t) ==
  /\ pc[t] = "set"
  /\ applications' = got[t]
  /\ Goto(t, "expire")
  /\ UNCHANGED <<now, bucket, expires, lastRefresh, started, force, got, histVars>>

\* Mutant of SetExpiry: the period is added in milliseconds.
SetExpiryMillis(t) ==
  /\ pc[t] = "expire"
  /\ expires' = now + 1000 * TTL
  /\ Goto(t, "refresh")
  /\ UNCHANGED <<now, bucket, applications, lastRefresh, started, force, got, histVars>>

\* Mutant of SetExpiry: the caller gets what the shared cache holds by then.
SetExpiryAndTake(t) ==
  /\ pc[t] = "expire"
  /\ expires' = now + TTL
  /\ got' = [got EXCEPT ![t] = applications]
  /\ Goto(t, "refresh")
  /\ UNCHANGED <<now, bucket, applications, lastRefresh, started, force, histVars>>

\* The second one.
SetExpiry(t) ==
  /\ pc[t] = "expire"
  /\ expires' = now + TTL
  /\ Goto(t, "refresh")
  /\ UNCHANGED <<now, bucket, applications, lastRefresh, started, force, got, histVars>>

\* _last_refresh is the time the load began, and the caller gets what it read.
Refresh(t) ==
  /\ pc[t] = "refresh"
  /\ lastRefresh' = [lastRefresh EXCEPT ![reader[t]] = started[t]]
  /\ floor' = [floor EXCEPT ![reader[t]] = IF force[t] THEN asked[t] ELSE @]
  /\ Leave(t)
  /\ UNCHANGED <<now, bucket, cacheVars, past>>

\* Listing, a download or the YAML raises.
LoadFails(t) ==
  /\ pc[t] = "load"
  /\ Leave(t)
  /\ UNCHANGED <<now, bucket, cacheVars, lastRefresh, past, floor>>

Load(t) ==
  \/ \E forced \in BOOLEAN : Call(t, forced)
  \/ Get(t) \/ Take(t) \/ Judge(t)
  \/ \E f \in Files : Download(t, f)
  \/ SetApplications(t) \/ SetExpiry(t) \/ Refresh(t) \/ LoadFails(t)

Next ==
  /\ UNCHANGED reader
  /\ \/ \E f \in Files : Publish(f)
     \/ Tick
     \/ \E t \in Threads : Load(t)

Spec == Init /\ [][Next]_vars

-----------------------------------------------------------------------------
(* Properties.                                                             *)

\* load_all returns; when it raises, the thread leaves from "load".
Answered(t) == pc[t] \in {"judge", "refresh"} /\ pc'[t] = "idle"

\* What the bucket held that long ago.
Held(age) == past[IF now > age THEN now - age ELSE 0]

\* Whatever threads do to the shared cache and to the reader they share, every answer
\* is younger than the cache period plus the time of three calls: the one that put
\* off the expiry, a slower one that replaced the registry meanwhile, and the one that
\* answers.  The refresh time of the reader is no help: it is looked at last.
AnswersFreshEnough ==
  [][\A t \in Threads : Answered(t) => AtLeast(got[t], Held(TTL + 3 * MaxLoad - 1))]_vars

\* An answer is never made up of files older than the call when the call itself
\* loads: a forced refresh reads the bucket.
LoadReadsBucket ==
  [][\A t \in Threads :
       (Answered(t) /\ pc[t] = "refresh") => AtLeast(got[t], asked[t])]_vars

\* Claim of docs/APPLICATION_REGISTRY.md:432, "Where immediate validation is required,
\* use the application's supported cache refresh": once a reader has been made to
\* refresh, its answers hold at least what the bucket held then.
RefreshSticks ==
  [][\A t \in Threads :
       Answered(t) => AtLeast(got[t], floor[reader[t]])]_vars

=============================================================================

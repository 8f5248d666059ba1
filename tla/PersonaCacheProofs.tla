-------------------------- MODULE PersonaCacheProofs --------------------------
(***************************************************************************)
(* The decoy's persona, for any rows, any number of changes, outages and   *)
(* refresh threads: an outage does not change it, and it never goes back   *)
(* to an older row.  The inductive invariant is CacheInv.                  *)
(***************************************************************************)
EXTENDS PersonaCache, TLAPS

(* The types, and that the history is a sequence that is never empty.      *)
TypeInv ==
    /\ TypeOK
    /\ history \in Seq(Rows \cup {NoRow}) /\ Len(history) > 0

(* One load at a time: the first before the listeners start, a refresh     *)
(* only while the flag is set.                                             *)
OneLoad ==
    /\ \A t, u \in Loads : job[t] # "none" /\ job[u] # "none" => t = u
    /\ job[Boot] # "none" <=> phase = "starting"
    /\ \A t \in Threads : job[t] # "none" => running

(* A row that a load has read could be read, and is no older than the one  *)
(* the cache was filled from.                                              *)
ReadInv ==
    /\ \A t \in Loads : job[t] = "read" => loadedFrom[t] > 0 /\ loadedFrom[t] >= cachedFrom
    /\ cached = NoPersona => cachedFrom = 0

CacheInv == TypeInv /\ OneLoad /\ ReadInv /\ OutageChangesNothing

(* A change of the row leaves the earlier states of it as they were.       *)
LEMMA SavedKeepsHistory ==
    ASSUME TypeInv, NEW row \in Rows \cup {NoRow}, Saved(row)
    PROVE  /\ history' \in Seq(Rows \cup {NoRow}) /\ Len(history') = Len(history) + 1
           /\ \A n \in 1..Len(history) : history'[n] = history[n]
           /\ UNCHANGED <<preset, up, outages, phase, cacheVars, jobVars>>
BY DEF TypeInv, Saved

(* Every request of the dashboard, and every change by other means, saves  *)
(* a row or the absence of one.                                            *)
LEMMA DashboardSaves ==
    ASSUME Dashboard
    PROVE  \E row \in Rows \cup {NoRow} : Saved(row)
BY DEF Dashboard, CreatePersonaConfig, UpdatePersonaConfig, DeletePersonaConfig, BreakRow

(* Every step keeps the types.                                             *)
LEMMA TypeStep ==
    ASSUME TypeInv, [Next]_vars
    PROVE  TypeInv'
<1>. USE PersonaConstants DEF TypeInv, TypeOK, Loads, dbVars, cacheVars, jobVars
<1>1. ASSUME NEW row \in Rows \cup {NoRow}, Saved(row) PROVE TypeInv'
  BY <1>1, SavedKeepsHistory DEF Row
<1>2. ASSUME GoesDown PROVE TypeInv'
  <2>1. outages' \in 0..MaxOutages
    BY <1>2 DEF GoesDown
  <2>. QED
    BY <1>2, <2>1 DEF GoesDown, Row
<1>3. ASSUME ComesBack PROVE TypeInv'
  BY <1>3 DEF ComesBack, Row
<1>4. ASSUME Expire PROVE TypeInv'
  BY <1>4 DEF Expire, Row
<1>5. ASSUME NEW t \in Threads, Connect(t) PROVE TypeInv'
  BY <1>5 DEF Connect, Row
<1>6. ASSUME NEW t \in Loads, Lookup(t) PROVE TypeInv'
  BY <1>6 DEF Lookup, Row, Current
<1>7. ASSUME NEW t \in Loads, Store(t) PROVE TypeInv'
  BY <1>7 DEF Store, Row
<1>8. CASE UNCHANGED vars
  BY <1>8 DEF vars, Row
<1>. QED
  BY <1>1, <1>2, <1>3, <1>4, <1>5, <1>6, <1>7, <1>8, DashboardSaves DEF Next, Refresh

(* The flag and the start keep loads apart.                                *)
LEMMA OneLoadStep ==
    ASSUME TypeInv, OneLoad, [Next]_vars
    PROVE  OneLoad'
<1>. USE PersonaConstants DEF TypeInv, TypeOK, OneLoad, Loads, dbVars, cacheVars, jobVars
<1>1. ASSUME NEW row \in Rows \cup {NoRow}, Saved(row) PROVE OneLoad'
  BY <1>1 DEF Saved
<1>2. CASE GoesDown \/ ComesBack \/ Expire \/ UNCHANGED vars
  BY <1>2 DEF GoesDown, ComesBack, Expire, vars
<1>3. ASSUME NEW t \in Threads, Connect(t) PROVE OneLoad'
  BY <1>3 DEF Connect
<1>4. ASSUME NEW t \in Loads, Lookup(t) PROVE OneLoad'
  BY <1>4 DEF Lookup
<1>5. ASSUME NEW t \in Loads, Store(t) PROVE OneLoad'
  BY <1>5 DEF Store
<1>. QED
  BY <1>1, <1>2, <1>3, <1>4, <1>5, DashboardSaves DEF Next, Refresh

(* What a load comes up with is a persona that validates, the one in use,  *)
(* or a failure.                                                           *)
LEMMA LoadedIsPersona ==
    ASSUME NEW t, job[t] = "read" => Row(loadedFrom[t]) \in Rows \cup {NoRow}
    PROVE  \/ Loaded(t) = Failure
           \/ job[t] = "failed" /\ cached # NoPersona /\ Loaded(t) = cached
           \/ ValidPersona(Loaded(t)) /\ Loaded(t) # NoPersona
<1>1. ValidPersona(PresetPersona) /\ PresetPersona # NoPersona
  BY PersonaConstants, NoPersonaAssumption DEF ValidPersona, PresetPersona
<1>2. \A row \in Rows : PersonaOf(row) # NoPersona
  BY NoPersonaAssumption
<1>3. GetPersona = Failure \/ (ValidPersona(GetPersona) /\ GetPersona # NoPersona)
  <2>1. GetPersona = PresetPersona \/ GetPersona = Failure
    BY DEF GetPersona
  <2>. QED
    BY <1>1, <2>1
<1>4. CASE job[t] = "read"
  <2>1. Loaded(t) = Meaning(loadedFrom[t])
    BY <1>4 DEF Loaded
  <2>2. CASE Row(loadedFrom[t]) = NoRow
    BY <1>3, <2>1, <2>2 DEF Meaning, Readable
  <2>3. CASE Row(loadedFrom[t]) # NoRow
    BY <1>2, <1>3, <1>4, <2>1, <2>3 DEF Meaning
  <2>. QED
    BY <2>2, <2>3
<1>5. CASE job[t] = "failed" /\ cached # NoPersona
  BY <1>5 DEF Loaded
<1>6. CASE job[t] # "read" /\ ~(job[t] = "failed" /\ cached # NoPersona)
  BY <1>3, <1>6 DEF Loaded
<1>. QED
  BY <1>4, <1>5, <1>6

(* What was read is at least as new as what is cached, because no other    *)
(* load fills the cache in between.                                        *)
LEMMA ReadStep ==
    ASSUME TypeInv, OneLoad, ReadInv, [Next]_vars
    PROVE  ReadInv' /\ cachedFrom' >= cachedFrom
<1>. USE PersonaConstants DEF TypeInv, TypeOK, ReadInv, Loads, dbVars, cacheVars, jobVars
<1>. DEFINE Goal == ReadInv' /\ cachedFrom' >= cachedFrom
<1>1. ASSUME NEW row \in Rows \cup {NoRow}, Saved(row) PROVE Goal
  BY <1>1 DEF Saved
<1>2. CASE GoesDown \/ ComesBack \/ Expire \/ UNCHANGED vars
  BY <1>2 DEF GoesDown, ComesBack, Expire, vars
<1>3. ASSUME NEW t \in Threads, Connect(t) PROVE Goal
  BY <1>3 DEF Connect
<1>4. ASSUME NEW t \in Loads, Lookup(t) PROVE Goal
  BY <1>4 DEF Lookup, Current
<1>5. ASSUME NEW t \in Loads, Store(t) PROVE Goal
  <2>1. job[t] = "read" => Row(loadedFrom[t]) \in Rows \cup {NoRow}
    BY <1>5 DEF Row
  <2>2. cached' = NoPersona => cached = NoPersona /\ UNCHANGED <<cached, cachedFrom>>
    BY <1>5, <2>1, LoadedIsPersona DEF Store
  <2>. QED
    BY <1>5, <2>2 DEF Store, OneLoad
<1>. QED
  BY <1>1, <1>2, <1>3, <1>4, <1>5, DashboardSaves DEF Next, Refresh

(* The cache is filled with what a row means, or left as it is.            *)
LEMMA DecoyStep ==
    ASSUME CacheInv, [Next]_vars
    PROVE  OutageChangesNothing'
<1>. USE DEF CacheInv
<1>1. TypeInv' /\ TypeOK'
  BY TypeStep DEF TypeInv
<1>. DEFINE Shown == cached # NoPersona =>
                        /\ cached = IF cachedFrom = 0 THEN PresetPersona ELSE Meaning(cachedFrom)
                        /\ ValidPersona(cached)
<1>2. Shown
  BY DEF OutageChangesNothing
<1>3. cachedFrom \in 0..Len(history) /\ history \in Seq(Rows \cup {NoRow})
  BY DEF TypeInv, TypeOK
<1>4. ASSUME NEW row \in Rows \cup {NoRow}, Saved(row) PROVE Shown'
  <2>1. cachedFrom > 0 => Meaning(cachedFrom)' = Meaning(cachedFrom)
    BY <1>3, <1>4, SavedKeepsHistory DEF Meaning, GetPersona, Row, cacheVars
  <2>. QED
    BY <1>2, <1>3, <1>4, <2>1, SavedKeepsHistory DEF cacheVars
<1>5. ASSUME UNCHANGED <<preset, history, cached, cachedFrom>> PROVE Shown'
  <2>1. Meaning(cachedFrom)' = Meaning(cachedFrom)
    BY <1>5 DEF Meaning, GetPersona, Row
  <2>. QED
    BY <1>2, <1>5, <2>1
<1>6. ASSUME NEW t \in Loads, Store(t) PROVE Shown'
  <2>1. UNCHANGED <<preset, history>>
    BY <1>6 DEF Store, dbVars
  <2>2. job[t] = "read" => Row(loadedFrom[t]) \in Rows \cup {NoRow} /\ loadedFrom[t] > 0
    BY DEF TypeInv, TypeOK, Row, ReadInv
  <2>3. CASE Loaded(t) = Failure
    BY <1>2, <1>6, <2>1, <2>3 DEF Store, cacheVars, Meaning, GetPersona, Row
  <2>4. CASE Loaded(t) # Failure
    <3>1. cached' = Loaded(t)
          /\ cachedFrom' = IF job[t] = "read" THEN loadedFrom[t] ELSE cachedFrom
      BY <1>6, <2>4 DEF Store
    <3>2. job[t] \in {"read", "failed"}
      BY <1>6 DEF Store
    <3>3. CASE job[t] = "read"
      <4>1. Loaded(t) = Meaning(loadedFrom[t])
        BY <3>3 DEF Loaded
      <4>. QED
        BY <2>1, <2>2, <2>4, <3>1, <3>3, <4>1, LoadedIsPersona DEF Meaning, GetPersona, Row
    <3>4. CASE job[t] = "failed" /\ cached # NoPersona
      BY <1>2, <2>1, <3>1, <3>4 DEF Loaded, Meaning, GetPersona, Row
    <3>5. CASE job[t] = "failed" /\ cached = NoPersona
      <4>1. Loaded(t) = PresetPersona
        BY <2>4, <3>5 DEF Loaded, GetPersona
      <4>2. cachedFrom' = 0
        BY <3>1, <3>5 DEF ReadInv
      <4>. QED
        BY <2>2, <2>4, <3>1, <3>5, <4>1, <4>2, LoadedIsPersona
    <3>. QED
      BY <3>2, <3>3, <3>4, <3>5
  <2>. QED
    BY <2>3, <2>4
<1>7. Shown'
  <2>1. CASE GoesDown \/ ComesBack \/ Expire \/ UNCHANGED vars
    BY <1>5, <2>1 DEF GoesDown, ComesBack, Expire, vars, cacheVars, dbVars
  <2>2. ASSUME NEW t \in Loads, Connect(t) \/ Lookup(t) PROVE Shown'
    BY <1>5, <2>2 DEF Connect, Lookup, cacheVars, dbVars
  <2>. QED
    BY <1>4, <1>6, <2>1, <2>2, DashboardSaves DEF Next, Refresh, Loads
<1>. QED
  BY <1>1, <1>7 DEF OutageChangesNothing

(* The initial states satisfy every part of the invariant.                 *)
LEMMA InitInv == Init => CacheInv
<1>. SUFFICES ASSUME Init PROVE CacheInv
  OBVIOUS
<1>1. PICK row \in Rows \cup {NoRow} : history = <<row>>
  BY DEF Init
<1>2. history \in Seq(Rows \cup {NoRow}) /\ Len(history) = 1 /\ history[1] = row
  BY <1>1
<1>3. TypeInv
  <2>1. \A n \in DOMAIN history : Row(n) = NoRow \/ Row(n) \in Rows
    BY <1>2 DEF Row
  <2>2. loadedFrom \in [Loads -> 0..Len(history)] /\ cachedFrom \in 0..Len(history)
    BY <1>2 DEF Init
  <2>3. job \in [Loads -> {"none", "reading", "read", "failed"}]
    BY DEF Init
  <2>4. outages \in 0..MaxOutages
    BY PersonaConstants DEF Init
  <2>5. /\ preset \in BOOLEAN /\ up \in BOOLEAN /\ stale \in BOOLEAN /\ running \in BOOLEAN
        /\ phase \in {"starting", "listening", "failed"}
    BY DEF Init
  <2>. QED
    BY <1>2, <2>1, <2>2, <2>3, <2>4, <2>5 DEF TypeInv, TypeOK
<1>4. OneLoad /\ ReadInv /\ OutageChangesNothing
  BY <1>3, PersonaConstants DEF Init, OneLoad, ReadInv, OutageChangesNothing, TypeInv, Loads
<1>. QED
  BY <1>3, <1>4 DEF CacheInv

(* The invariant is inductive.                                             *)
LEMMA CacheStep == CacheInv /\ [Next]_vars => CacheInv'
BY TypeStep, OneLoadStep, ReadStep, DecoyStep DEF CacheInv

(* Whatever is saved, however often the database goes away and whichever   *)
(* rows fail to validate, the decoy is the persona of the row it was last  *)
(* read from, and a persona that validates.                                *)
THEOREM DecoySurvivesOutage == Spec => []OutageChangesNothing
<1>1. CacheInv => OutageChangesNothing
  BY DEF CacheInv
<1>. QED
  BY <1>1, InitInv, CacheStep, PTL DEF Spec

(* No reload, with any number of refresh threads, takes the decoy back to  *)
(* an older state of the row.                                              *)
THEOREM NeverGoesBack == Spec => NeverOlder
<1>1. CacheInv /\ [Next]_vars => [cachedFrom' >= cachedFrom]_vars
  BY ReadStep DEF CacheInv
<1>. QED
  BY <1>1, InitInv, CacheStep, PTL DEF Spec, NeverOlder

==============================================================================

----------------------------- MODULE PersonaCache -----------------------------
(***************************************************************************)
(* The persona new sessions show: the row the dashboard saves              *)
(* (classifier/api/app.py, storage/repository.py), the persona built from  *)
(* it or from a preset (honeypot/core/persona.py), and the cache the       *)
(* listeners read while one background thread at a time reloads it         *)
(* (honeypot/network/config.py).                                           *)
(*                                                                         *)
(* Only the row of the configured persona id matters.  A row is its        *)
(* hostname and its decoy paths; the other fields are copied unchanged.    *)
(* The two kinds of paths validation tells apart are constants.            *)
(***************************************************************************)
EXTENDS Naturals, Sequences, FiniteSets

CONSTANTS Id,          \* ECHIDRA_PERSONA
          Hostnames,   \* what an operator may type, the empty name included
          Blank,       \* the empty hostname
          Paths,       \* decoy paths
          UnsafePaths, \* those that are relative or contain ".."
          HomeFile,    \* a starting file in the home directory
          Threads,     \* background refreshes
          Boot,        \* the first load, before the listeners start
          MaxSaves,    \* changes of the row
          MaxOutages,  \* times the database goes away
          NoRow, NoPersona, Failure

ASSUME PersonaConstants ==
    /\ UnsafePaths \subseteq Paths /\ HomeFile \notin UnsafePaths
    /\ Blank \in Hostnames /\ Blank \notin {Id, "preset"} /\ Boot \notin Threads
    /\ MaxSaves \in Nat /\ MaxOutages \in Nat

VARIABLES
    preset,     \* whether Id is one of PRESET_PERSONAS
    history,    \* the states the row went through, the last one being current
    up,         \* the database answers
    outages,    \* outages so far
    phase,      \* of the honeypot: "starting", "listening", "failed"
    cached,     \* _cached_persona
    stale,      \* _cached_persona_expires_at has passed
    running,    \* _persona_refresh_running
    job,        \* how far each load is: "none", "reading", or what it read
    loadedFrom, \* history: the row state each load has read, 0 if none
    cachedFrom  \* history: the row state the cached persona was read from

dbVars    == <<history, up, outages>>
cacheVars == <<cached, stale, cachedFrom>>
jobVars   == <<running, job, loadedFrom>>
vars == <<preset, dbVars, phase, cacheVars, jobVars>>

Loads == Threads \cup {Boot}

-----------------------------------------------------------------------------
(* Rows and personas *)

Rows == [hostname : Hostnames, decoys : UNION {[1..n -> Paths] : n \in 0..2}]

SafePaths(row) == \A i \in DOMAIN row.decoys : row.decoys[i] \notin UnsafePaths
NoDuplicates(row) == \A i, j \in DOMAIN row.decoys : row.decoys[i] = row.decoys[j] => i = j

(* DecoyFile and PersonaConfigInput: checked when the dashboard sends a    *)
(* row, and again when it is read back (_persona_config_from_row).         *)
ValidRow(row) == SafePaths(row) /\ NoDuplicates(row)

Readable(row) == IF row = NoRow THEN TRUE ELSE ValidRow(row)

(* A persona: its hostname, and its files by where they come from. *)
PresetPersona ==
    [hostname |-> "preset", files |-> [p \in {HomeFile} |-> "start"]]

(* _persona_from_config_record: a decoy replaces a starting file. *)
PersonaOf(row) ==
    LET decoys == {row.decoys[i] : i \in DOMAIN row.decoys}
    IN  [hostname |-> IF row.hostname = Blank THEN Id ELSE row.hostname,
         files |-> [p \in decoys \cup {HomeFile} |-> IF p \in decoys THEN "decoy" ELSE "start"]]

ASSUME NoPersonaAssumption == NoPersona \notin {PresetPersona} \cup {PersonaOf(row) : row \in Rows}

ValidPersona(persona) ==
    /\ persona.hostname # Blank
    /\ DOMAIN persona.files \cap UnsafePaths = {}
    /\ HomeFile \in DOMAIN persona.files

(* get_persona: a preset, or a ValueError. *)
GetPersona == IF preset THEN PresetPersona ELSE Failure

Row(n) == history[n]
Current == Len(history)

(* What a row state stands for, if it can be read: its persona, or the     *)
(* preset when there is no row.  A row that does not validate raises       *)
(* inside the lookup.                                                      *)
Meaning(n) ==
    CASE Row(n) = NoRow -> GetPersona
      [] ~Readable(Row(n)) -> Failure
      [] Row(n) # NoRow /\ ValidPersona(PersonaOf(Row(n))) -> PersonaOf(Row(n))
      [] OTHER -> GetPersona

-----------------------------------------------------------------------------
Init ==
    /\ preset \in BOOLEAN
    /\ history \in {<<NoRow>>} \cup {<<row>> : row \in {r \in Rows : ValidRow(r)}}
    /\ up \in BOOLEAN
    /\ outages = 0
    /\ phase = "starting"
    /\ cached = NoPersona
    /\ stale = FALSE
    /\ running = FALSE
    /\ job = [t \in Loads |-> IF t = Boot THEN "reading" ELSE "none"]
    /\ loadedFrom = [t \in Loads |-> 0]
    /\ cachedFrom = 0

(* The dashboard's requests: a row that does not validate is refused, as   *)
(* are a second row of the same id and changes to one that is not there.   *)
Saved(row) ==
    /\ up /\ Current <= MaxSaves
    /\ history' = Append(history, row)
    /\ UNCHANGED <<preset, up, outages, phase, cacheVars, jobVars>>

CreatePersonaConfig(row) == Row(Current) = NoRow /\ ValidRow(row) /\ Saved(row)
UpdatePersonaConfig(row) == Row(Current) # NoRow /\ ValidRow(row) /\ Saved(row)
DeletePersonaConfig      == Row(Current) # NoRow /\ Saved(NoRow)

(* The row is changed by other means, into one that does not validate. *)
BreakRow(row) == ~ValidRow(row) /\ Saved(row)

GoesDown ==
    /\ up /\ outages < MaxOutages
    /\ up' = FALSE /\ outages' = outages + 1
    /\ UNCHANGED <<preset, history, phase, cacheVars, jobVars>>

ComesBack ==
    /\ ~up /\ up' = TRUE
    /\ UNCHANGED <<preset, history, outages, phase, cacheVars, jobVars>>

-----------------------------------------------------------------------------
(* get_active_persona and its threads *)

(* Five seconds have passed since the last load. *)
Expire ==
    /\ cached # NoPersona /\ ~stale
    /\ stale' = TRUE
    /\ UNCHANGED <<preset, dbVars, phase, cached, cachedFrom, jobVars>>

(* Mutant: the flag is not looked at. *)
ConnectUnguarded(t) ==
    /\ phase = "listening" /\ stale
    /\ job[t] = "none"
    /\ running' = TRUE
    /\ job' = [job EXCEPT ![t] = "reading"]
    /\ loadedFrom' = [loadedFrom EXCEPT ![t] = 0]
    /\ UNCHANGED <<preset, dbVars, phase, cacheVars>>

(* A connection finds the cached persona stale, and is given it all the    *)
(* same; a refresh starts unless one is running.                           *)
Connect(t) ==
    /\ phase = "listening" /\ stale
    /\ ~running /\ job[t] = "none"
    /\ running' = TRUE
    /\ job' = [job EXCEPT ![t] = "reading"]
    /\ loadedFrom' = [loadedFrom EXCEPT ![t] = 0]
    /\ UNCHANGED <<preset, dbVars, phase, cacheVars>>

(* The lookup of _load_persona_from_db, which fails while the database is  *)
(* away and on a row that does not validate.                               *)
Lookup(t) ==
    /\ job[t] = "reading"
    /\ IF up /\ Readable(Row(Current))
       THEN /\ job' = [job EXCEPT ![t] = "read"]
            /\ loadedFrom' = [loadedFrom EXCEPT ![t] = Current]
       ELSE /\ job' = [job EXCEPT ![t] = "failed"]
            /\ UNCHANGED loadedFrom
    /\ UNCHANGED <<preset, dbVars, phase, cacheVars, running>>

(* Mutant: a failed lookup falls back to the preset. *)
LoadedPreset(t) == IF job[t] = "failed" THEN GetPersona ELSE Meaning(loadedFrom[t])

(* _refresh_active_persona: a failed lookup keeps the persona in use, and  *)
(* the preset is the last resort.                                          *)
Loaded(t) ==
    CASE job[t] = "read" -> Meaning(loadedFrom[t])
      [] job[t] = "failed" /\ cached # NoPersona -> cached
      [] OTHER -> GetPersona

(* Mutant: after an error the flag stays set. *)
StoreKeepsFlag(t) ==
    /\ job[t] \in {"read", "failed"}
    /\ IF Loaded(t) = Failure
       THEN UNCHANGED <<cacheVars, running>>
       ELSE /\ cached' = Loaded(t)
            /\ stale' = FALSE
            /\ cachedFrom' = IF job[t] = "read" THEN loadedFrom[t] ELSE cachedFrom
            /\ running' = IF t = Boot THEN running ELSE FALSE
    /\ phase' = CASE t # Boot             -> phase
                  [] Loaded(t) = Failure  -> "failed"
                  [] OTHER                -> "listening"
    /\ job' = [job EXCEPT ![t] = "none"]
    /\ UNCHANGED <<preset, dbVars, loadedFrom>>

(* The end of a load: the cache is filled, or left alone after an error,   *)
(* and the flag is cleared.  The first load's error ends the honeypot.     *)
Store(t) ==
    /\ job[t] \in {"read", "failed"}
    /\ IF Loaded(t) = Failure
       THEN UNCHANGED cacheVars
       ELSE /\ cached' = Loaded(t)
            /\ stale' = FALSE
            /\ cachedFrom' = IF job[t] = "read" THEN loadedFrom[t] ELSE cachedFrom
    /\ phase' = CASE t # Boot             -> phase
                  [] Loaded(t) = Failure  -> "failed"
                  [] OTHER                -> "listening"
    /\ running' = IF t = Boot THEN running ELSE FALSE
    /\ job' = [job EXCEPT ![t] = "none"]
    /\ UNCHANGED <<preset, dbVars, loadedFrom>>

-----------------------------------------------------------------------------
Dashboard ==
    \/ \E row \in Rows : CreatePersonaConfig(row) \/ UpdatePersonaConfig(row) \/ BreakRow(row)
    \/ DeletePersonaConfig

Refresh == \E t \in Loads : Lookup(t) \/ Store(t)

Next ==
    \/ Dashboard \/ GoesDown \/ ComesBack \/ Expire
    \/ \E t \in Threads : Connect(t)
    \/ Refresh

(* Time passes, threads run, connections keep arriving, and the database   *)
(* comes back.                                                             *)
Fairness ==
    /\ WF_vars(Expire) /\ WF_vars(\E t \in Threads : Connect(t))
    /\ WF_vars(Refresh) /\ WF_vars(ComesBack)

Spec == Init /\ [][Next]_vars /\ Fairness

-----------------------------------------------------------------------------
(* Properties *)

TypeOK ==
    /\ preset \in BOOLEAN /\ up \in BOOLEAN /\ stale \in BOOLEAN /\ running \in BOOLEAN
    /\ \A n \in DOMAIN history : Row(n) = NoRow \/ Row(n) \in Rows
    /\ outages \in 0..MaxOutages /\ phase \in {"starting", "listening", "failed"}
    /\ job \in [Loads -> {"none", "reading", "read", "failed"}]
    /\ loadedFrom \in [Loads -> 0..Len(history)] /\ cachedFrom \in 0..Len(history)

(* An outage never changes the decoy, nor does a row that cannot be read:  *)
(* the cached persona is the one the row it was last read from stands for, *)
(* and the preset only when no row was ever read.  It always validates     *)
(* (get_active_persona, _refresh_active_persona; the types included).      *)
OutageChangesNothing ==
    /\ TypeOK
    /\ cached # NoPersona =>
           /\ cached = IF cachedFrom = 0 THEN PresetPersona ELSE Meaning(cachedFrom)
           /\ ValidPersona(cached)

(* New sessions never go back to an older state of the row: loads do not   *)
(* overtake one another (_start_persona_refresh).                          *)
NeverOlder == [][cachedFrom' >= cachedFrom]_vars

(* Once the dashboard has made its last change, connections come to show   *)
(* it without a restart, unless the row stands for no persona at all.      *)
SavedIsServed ==
    <>[](phase = "failed" \/ Meaning(Current) = Failure \/ cached = Meaning(Current))

=============================================================================

----------------------------- MODULE MemoryStore -----------------------------
(***************************************************************************)
(* What is remembered: the memory store, whose entries are overwritten,    *)
(* superseded and deleted under a hierarchy of trust, and the user's       *)
(* knowledge with its audited corrections and the restore of backups.      *)
(* Contents are left out; the copy for Kingdom is sent by the step that    *)
(* writes the entry, and nothing depends on its answer.  All of it is lost *)
(* when the page is loaded anew, the audit too: a behaviour is what        *)
(* happens between two loads, and a backup may be older than the first.    *)
(***************************************************************************)
EXTENDS Common, FiniteSets

CONSTANTS
    Memory,        \* identifiers of memory entries
    Fact,          \* identifiers of the user's facts
    Levels,        \* the trust levels used
    MaxVersion     \* bound: version of an entry or a fact

TrustRanks ==
    [SYSTEM_AUTHORITY |-> 100, KINGDOM_AUTHORITY |-> 90, USER_CONFIRMED |-> 80, USER_PROVIDED |-> 70,
     VERIFIED_TOOL_RESULT |-> 60, MODEL_INFERENCE |-> 40, EXTERNAL_SOURCE |-> 20, UNVERIFIED |-> 10]

EntryRecord ==
    [trust : Levels, version : 1 .. MaxVersion, lifecycle : {"ACTIVE", "DELETED", "SUPERSEDED"}]

ASSUME MemoryAssumption ==
    /\ Levels \subseteq DOMAIN TrustRanks
    /\ MaxVersion \in Nat \ {0}
    /\ None \notin EntryRecord

VARIABLES
    entries,       \* MemoryStore.localEntries
    connected,     \* the adapter is CONNECTED
    sent,          \* the entries handed to Kingdom
    facts,         \* the version of every fact of the user; 0 if there is none
    corrections,   \* how many corrections of a fact the audit holds
    restored       \* only here: the highest version of a fact that a restore brought

memoryVars == <<entries, connected, sent, facts, corrections, restored>>

knowledge == <<facts, corrections, restored>>

MemoryInit ==
    /\ entries = [m \in Memory |-> None]
    /\ connected \in BOOLEAN
    /\ sent = {}
    /\ facts = [f \in Fact |-> 0]
    /\ corrections = [f \in Fact |-> 0]
    /\ restored = [f \in Fact |-> 0]

-----------------------------------------------------------------------------
(* The memory store. *)

Entry(trust, version) == [trust |-> trust, version |-> version, lifecycle |-> "ACTIVE"]

\* Mutant: only an active entry keeps lower ranks away.
MayWriteInactive(book, m, trust) ==
    book[m] # None /\ book[m].lifecycle = "ACTIVE" => TrustRanks[trust] >= TrustRanks[book[m].trust]

\* An entry, deleted or not, is overwritten only from its own rank upwards.
MayWrite(book, m, trust) == book[m] # None => TrustRanks[trust] >= TrustRanks[book[m].trust]

Written(book, m, trust) ==
    [book EXCEPT ![m] = Entry(trust, IF book[m] = None THEN 1 ELSE book[m].version + 1)]

\* A write of a book that may just have lost an entry; what came from outside is not sent to Kingdom.
Record(book, m, trust) ==
    /\ book[m] # None => book[m].version < MaxVersion
    /\ IF MayWrite(book, m, trust)
       THEN /\ entries' = Written(book, m, trust)
            /\ sent' = IF connected /\ trust # "EXTERNAL_SOURCE"
                       THEN sent \cup {<<m, Written(book, m, trust)[m].version>>} ELSE sent
       ELSE entries' = book /\ UNCHANGED sent
    /\ UNCHANGED <<connected, knowledge>>

RecordMemory(m, trust) == Record(entries, m, trust)

\* The lifecycle an existing entry is given; nothing happens to an unknown one.
Marked(m, lifecycle) ==
    IF entries[m] = None THEN entries ELSE [entries EXCEPT ![m].lifecycle = lifecycle]

DeleteMemory(m) ==
    /\ entries' = Marked(m, "DELETED")
    /\ UNCHANGED <<connected, sent, knowledge>>

\* The old entry is marked first and stays so when the new one is refused.
SupersedeMemory(old, m, trust) == Record(Marked(old, "SUPERSEDED"), m, trust)

LinkChanges ==
    /\ connected' = ~connected
    /\ UNCHANGED <<entries, sent, knowledge>>

-----------------------------------------------------------------------------
(* The user's knowledge. *)

\* Confirming a fact again starts its version anew.
AddConfirmedFact(f) ==
    /\ facts' = [facts EXCEPT ![f] = 1]
    /\ UNCHANGED <<entries, connected, sent, corrections, restored>>

CorrectFact(f) ==
    /\ facts[f] < MaxVersion /\ corrections[f] < MaxVersion
    /\ facts' = [facts EXCEPT ![f] = @ + 1]
    /\ corrections' = [corrections EXCEPT ![f] = @ + 1]
    /\ UNCHANGED <<entries, connected, sent, restored>>

ForgetMemory(f) ==
    /\ facts' = [facts EXCEPT ![f] = 0]
    /\ UNCHANGED <<entries, connected, sent, corrections, restored>>

\* A backup is any list of facts with any versions: exported before (which changes nothing), by an
\* earlier session or another browser, or written by hand; only its being a list is checked.
Backups == [Fact -> 0 .. MaxVersion]

\* What the backup holds replaces what is known, newer and forgotten facts included; the rest stays.
\* The audit is not in the backup and takes no notice.
RestoreKnowledgeBackup(backup) ==
    /\ facts' = [f \in Fact |-> IF backup[f] > 0 THEN backup[f] ELSE facts[f]]
    /\ restored' = [f \in Fact |-> IF backup[f] > restored[f] THEN backup[f] ELSE restored[f]]
    /\ UNCHANGED <<entries, connected, sent, corrections>>

MemoryNext ==
    \/ \E m \in Memory, trust \in Levels :
          RecordMemory(m, trust) \/ \E old \in Memory : SupersedeMemory(old, m, trust)
    \/ \E m \in Memory : DeleteMemory(m)
    \/ \E f \in Fact : AddConfirmedFact(f) \/ CorrectFact(f) \/ ForgetMemory(f)
    \/ LinkChanges
    \/ \E backup \in Backups : RestoreKnowledgeBackup(backup)

MemorySpec == MemoryInit /\ [][MemoryNext]_memoryVars

-----------------------------------------------------------------------------
(* Properties. *)

MemoryTypeOK ==
    /\ entries \in [Memory -> EntryRecord \cup {None}]
    /\ connected \in BOOLEAN /\ sent \subseteq Memory \X (1 .. MaxVersion)
    /\ facts \in [Fact -> 0 .. MaxVersion] /\ restored \in [Fact -> 0 .. MaxVersion]
    /\ corrections \in [Fact -> 0 .. MaxVersion]

\* A fact begins with version 1, or with the version a restore brought.
Brought(f) == IF restored[f] > 1 THEN restored[f] ELSE 1

\* What Kingdom was told since the page was loaded is never ahead of the local entry; and a fact,
\* however it was corrected, forgotten, confirmed anew and restored, has no version beyond the
\* highest it was restored with that the audit of this session does not account for.  What a restore
\* brings is not accounted for at all: it may claim more corrections than the audit holds.
VersionsAccounted ==
    /\ \A s \in sent : entries[s[1]] # None /\ s[2] <= entries[s[1]].version
    /\ \A f \in Fact : facts[f] <= corrections[f] + Brought(f)

\* An identifier never passes to something less trusted, not even after its entry was deleted or
\* superseded, its versions only grow, and they stay accounted for.
MemoryAccountable ==
    /\ []MemoryTypeOK
    /\ []VersionsAccounted
    /\ [][\A m \in Memory :
             entries[m] # None =>
                /\ entries'[m] # None
                /\ TrustRanks[entries'[m].trust] >= TrustRanks[entries[m].trust]
                /\ entries'[m].version >= entries[m].version]_memoryVars
=============================================================================

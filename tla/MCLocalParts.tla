----------------------------- MODULE MCLocalParts -----------------------------
(***************************************************************************)
(* The parts that keep the owner's own things: the versions of a skill,    *)
(* the trust of skills, memories and facts, captures and desktop control,  *)
(* the observations on the status panel, and the updates of the browser    *)
(* app.  They share no state, so each behaviour drives one of them.        *)
(***************************************************************************)
EXTENDS SkillLibrary, SkillTrust, MemoryStore, MediaCapture, DesktopVision, KingdomReads, AppUpdates,
        TLC

VARIABLE driven

\* A skill that depends on another, two manifests of each.
SkillSet == {"scraper", "parser"}
ParserNeeded == [s \in SkillSet |-> IF s = "scraper" THEN {<<"parser", 1>>} ELSE {}]

\* A patch and a release of the next line, served in any order.
Lines == <<1, 1, 2>>

localVars == <<libraryVars, manifests, memoryVars, captureVars, visionVars, readsVars, updatesVars>>

Parts == {"versions", "trust", "memory", "capture", "vision", "reads", "updates"}

\* What a part that is not driven starts with does not matter: one state of it is enough.  The
\* discovery of services can do all that the local activity can.
Init ==
    /\ driven \in Parts
    /\ LibraryInit
    /\ TrustInit
    /\ MemoryInit /\ (driven # "memory" => connected)
    /\ CaptureInit
    /\ VisionInit
    /\ ReadsInit /\ (IF driven = "reads" THEN path # "activity" ELSE online /\ path = "activity")
    /\ UpdatesInit /\ (driven # "updates" => server.version = 1 /\ attempts.works)

Next ==
    \/ /\ driven = "versions" /\ LibraryNext
       /\ UNCHANGED <<driven, manifests, memoryVars, captureVars, visionVars, readsVars, updatesVars>>
    \/ /\ driven = "trust" /\ TrustNext
       /\ UNCHANGED <<driven, libraryVars, memoryVars, captureVars, visionVars, readsVars, updatesVars>>
    \/ /\ driven = "memory" /\ MemoryNext
       /\ UNCHANGED <<driven, libraryVars, manifests, captureVars, visionVars, readsVars, updatesVars>>
    \/ /\ driven = "capture" /\ CaptureNext
       /\ UNCHANGED <<driven, libraryVars, manifests, memoryVars, visionVars, readsVars, updatesVars>>
    \/ /\ driven = "vision" /\ VisionNext
       /\ UNCHANGED <<driven, libraryVars, manifests, memoryVars, captureVars, readsVars, updatesVars>>
    \/ /\ driven = "reads" /\ ReadsNext
       /\ UNCHANGED <<driven, libraryVars, manifests, memoryVars, captureVars, visionVars, updatesVars>>
    \/ /\ driven = "updates" /\ UpdatesNext
       /\ UNCHANGED <<driven, libraryVars, manifests, memoryVars, captureVars, visionVars, readsVars>>

Spec == Init /\ [][Next]_<<driven, localVars>>

Interchangeable == Permutations(Refresh) \cup Permutations(Request)
=============================================================================

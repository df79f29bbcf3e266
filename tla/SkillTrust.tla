----------------------------- MODULE SkillTrust -----------------------------
(***************************************************************************)
(* The trusted skill engine: manifests of skill versions in the order of   *)
(* their registration.  A version is registered as often as it is          *)
(* imported; the first manifest with its number is the one that counts.    *)
(* A skill may execute when its own manifest and the first one that        *)
(* satisfies each dependency are trusted.                                  *)
(***************************************************************************)
EXTENDS Common, Sequences, FiniteSets

CONSTANTS
    Skill,          \* skill identifiers
    SkillVersion,   \* version numbers, in the order compareSemver gives them
    Needs,          \* the dependencies of each skill: pairs <<skill, least version>>
    MaxManifests    \* bound: manifests of a skill

ASSUME NeedsAssumption == Needs \in [Skill -> SUBSET (Skill \X SkillVersion)]

TrustState == {"UNTRUSTED", "REVIEW_REQUIRED", "APPROVED", "ACTIVE", "REVOKED"}

VARIABLE manifests

TrustInit == manifests = [s \in Skill |-> <<>>]

Of(s, v) == {i \in DOMAIN manifests[s] : manifests[s][i].version = v}

\* Mutant: the newest registration comes first.
FiledFirst(s, manifest) == <<manifest>> \o manifests[s]

Filed(s, manifest) == Append(manifests[s], manifest)

\* An active version is immutable; anything else is appended, with the claimed trust only if the
\* registration is authoritative.
Register(s, v, trust) ==
    /\ Len(manifests[s]) < MaxManifests
    /\ \A i \in Of(s, v) : manifests[s][i].trust # "ACTIVE"
    /\ manifests' = [manifests EXCEPT ![s] = Filed(s, [version |-> v, trust |-> trust])]

ImportManifest(s, v) == Register(s, v, "UNTRUSTED")

RegisterAuthoritatively(s, v, trust) == Register(s, v, trust)

SetSkillTrustState(s, v, trust) ==
    /\ Of(s, v) # {}
    /\ manifests' = [manifests EXCEPT ![s][Earliest(Of(s, v))].trust = trust]

TrustNext ==
    \E s \in Skill, v \in SkillVersion :
       \/ ImportManifest(s, v)
       \/ \E trust \in TrustState : RegisterAuthoritatively(s, v, trust) \/ SetSkillTrustState(s, v, trust)

TrustSpec == TrustInit /\ [][TrustNext]_manifests

-----------------------------------------------------------------------------
(* May a version execute? *)

Trusted(trust) == trust \in {"APPROVED", "ACTIVE"}

Sufficient(need) == {i \in DOMAIN manifests[need[1]] : manifests[need[1]][i].version >= need[2]}

\* The first version that is new enough decides, whatever the others are.
Met(need) ==
    Sufficient(need) # {} /\ Trusted(manifests[need[1]][Earliest(Sufficient(need))].trust)

\* "genuine" says whether the artifact, if one is shown, has the checksum of the manifest.
ValidateSkillExecution(s, v, genuine) ==
    /\ Of(s, v) # {}
    /\ Trusted(manifests[s][Earliest(Of(s, v))].trust)
    /\ genuine
    /\ \A need \in Needs[s] : Met(need)

Executable == {e \in Skill \X SkillVersion : ValidateSkillExecution(e[1], e[2], TRUE)}

-----------------------------------------------------------------------------
(* Properties. *)

TrustTypeOK ==
    manifests \in [Skill -> Seq([version : SkillVersion, trust : TrustState])]

\* The trust of a version: what its first manifest says.
TrustOf(s, v) == IF Of(s, v) = {} THEN None ELSE manifests[s][Earliest(Of(s, v))].trust

\* Importing a manifest never changes what may execute, neither by shadowing a version of the skill
\* itself nor by offering another version of something it depends on; and a known version, revoked
\* ones included, keeps its trust however it is registered again.
RegistrationDecidesNothing ==
    /\ []TrustTypeOK
    /\ [][\A s \in Skill, v \in SkillVersion :
             /\ ImportManifest(s, v) => Executable' = Executable
             /\ \A trust \in TrustState :
                   RegisterAuthoritatively(s, v, trust) /\ Of(s, v) # {} =>
                      TrustOf(s, v)' = TrustOf(s, v)]_manifests
=============================================================================

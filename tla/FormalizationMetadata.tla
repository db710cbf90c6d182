----------------------- MODULE FormalizationMetadata -----------------------
(***************************************************************************)
(* submission_contract.py: which fields of formalization.yaml are reported *)
(* as invalid.  A document keeps what the checks tell apart: which plain   *)
(* fields are missing or malformed, how the people fields name people, the *)
(* kinds of sources, and the repository section.                           *)
(*                                                                         *)
(* normalized_provenance validates whole sections and raises at the first  *)
(* error; load_formalization_metadata wants every field's error at once,   *)
(* and so runs it on documents with other sections replaced.               *)
(*                                                                         *)
(* A variant before an operator is a slip that PROJECT.json's "mutants"    *)
(* put in its place; nothing else uses it.                                 *)
(***************************************************************************)

\* Fields checked on their own, each by one call.
PlainFields == {"project.name", "project.description", "project.license",
                "classification.arxiv", "classification.msc2020",
                "automation.methods", "review.status"}

Fields == PlainFields \cup
          {"project.authors", "project.responsible_maintainers"} \cup
          {"sources", "repository", "related_formalizations"}

\* identified: a name that contains an ORCID iD, which old records may have.
People == {"named", "identified", "malformed"}

\* original, presented: type original-proof with relationship other, or not;
\* prior: a substantive relationship; background: any other relationship.
SourceKinds == {"original", "presented", "prior", "background", "malformed"}

\* The repository section, absent or with a role and a target.
Roles == {"", "substantive-development", "thin-wrapper", "unknown"}
Targets == {"absent", "malformed", "pinned"}
NoRepository == [role |-> "absent", target |-> "absent"]
Repositories == [role : Roles, target : Targets] \cup {NoRepository}

Documents == [malformed : SUBSET PlainFields, authors : People,
              maintainers : People, sources : SUBSET SourceKinds,
              related : {"fine", "malformed"}, repository : Repositories]

-----------------------------------------------------------------------------
\* _person_records: only a correction of an old record may keep an iD in a name.
PeopleRefused(people, legacy) ==
    people = "malformed" \/ (people = "identified" /\ ~ legacy)

\* What the sources say of the result's origin, and whether they agree.
SourcesRefused(sources) ==
    LET original == sources \cap {"original", "presented"} # {}
    IN  \/ sources = {} \/ "malformed" \in sources
        \/ ~ original /\ "prior" \notin sources
        \/ original /\ sources \cap {"presented", "prior"} # {}

\* A missing role follows from the target.
EffectiveRole(repository) ==
    IF repository.role \in {"", "absent"}
    THEN IF repository.target = "absent" THEN "substantive-development" ELSE "thin-wrapper"
    ELSE repository.role

RepositoryRefused(repository) ==
    LET role == EffectiveRole(repository)
    IN  \/ role = "unknown"
        \/ role = "substantive-development" /\ repository.target # "absent"
        \/ role = "thin-wrapper" /\ repository.target # "pinned"

\* A section, if it is refused.
Field(f, refused) == IF refused THEN {f} ELSE {}

\* The sections normalized_provenance refuses, each judged by itself.
RefusedSections(doc, legacy) ==
    Field("project.responsible_maintainers", PeopleRefused(doc.maintainers, legacy))
    \cup Field("repository", RepositoryRefused(doc.repository))
    \cup Field("sources", SourcesRefused(doc.sources))
    \cup Field("related_formalizations", doc.related = "malformed")

\* normalized_provenance of a document whose refused sections are these: the
\* first of them, in its order.
Normalized(refused) ==
    CASE "project.responsible_maintainers" \in refused -> {"project.responsible_maintainers"}
      [] "project.responsible_maintainers" \notin refused
           /\ "repository" \in refused                 -> {"repository"}
      [] refused \cap {"project.responsible_maintainers", "repository"} = {}
           /\ "sources" \in refused                    -> {"sources"}
      [] OTHER                                         -> refused

ProvenanceCheckedAsOne(doc, legacy) == Normalized(RefusedSections(doc, legacy))

\* The two runs of normalized_provenance: without maintainers and repository,
\* and, if there is a repository section, without maintainers and sources.
ProvenanceChecked(doc, legacy) ==
    LET refused == RefusedSections(doc, legacy)
    IN  Normalized(refused \ {"project.responsible_maintainers", "repository"})
        \cup IF doc.repository = NoRepository THEN {}
             ELSE Normalized(refused \ {"project.responsible_maintainers", "sources"})

\* load_formalization_metadata: the fields it reports.
ReportedFields(doc, legacy) ==
    doc.malformed
    \cup Field("project.authors", PeopleRefused(doc.authors, legacy))
    \cup Field("project.responsible_maintainers", PeopleRefused(doc.maintainers, legacy))
    \cup ProvenanceChecked(doc, legacy)

-----------------------------------------------------------------------------
\* What a reader of the contract would call wrong with a document.
WrongFields(doc, legacy) ==
    doc.malformed
    \cup Field("project.authors", PeopleRefused(doc.authors, legacy))
    \cup RefusedSections(doc, legacy)

\* The fields every document must have.
RequiredFields == Fields \ {"related_formalizations"}
=============================================================================

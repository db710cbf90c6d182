------------------------- MODULE PreparationProofs -------------------------
(***************************************************************************)
(* What preparation reports, for every submission and every cap of the     *)
(* report: which fields of formalization.yaml it names, which of its       *)
(* issues a report keeps, and whom it blames.                              *)
(***************************************************************************)
EXTENDS Preparation, RecursionTheorems, FiniteSetTheorems

-----------------------------------------------------------------------------
(* formalization.yaml                                                      *)

\* A run of normalized_provenance reports nothing that is in order.
LEMMA NormalizedIs ==
  ASSUME NEW refused
  PROVE  /\ Normalized(refused) \subseteq refused
         /\ "project.responsible_maintainers" \notin refused /\ "repository" \in refused
              => "repository" \in Normalized(refused)
         /\ refused \cap {"project.responsible_maintainers", "repository"} = {}
              /\ "sources" \in refused => "sources" \in Normalized(refused)
  BY DEF Normalized

LEMMA RefusedAre ==
  ASSUME NEW doc, NEW legacy
  PROVE  /\ RefusedSections(doc, legacy)
              \subseteq {"project.responsible_maintainers", "repository", "sources",
                         "related_formalizations"}
         /\ "project.responsible_maintainers" \in RefusedSections(doc, legacy)
              => PeopleRefused(doc.maintainers, legacy)
         /\ "repository" \in RefusedSections(doc, legacy) => doc.repository # NoRepository
  <1>1. ~ RepositoryRefused(NoRepository)
    BY DEF RepositoryRefused, NoRepository, EffectiveRole
  <1>2. RepositoryRefused(doc.repository) => doc.repository # NoRepository
    BY <1>1
  <1> HIDE DEF NoRepository
  <1> QED
    BY <1>2 DEF RefusedSections, Field

\* What is reported is wrong, and what is wrong and required is reported, whichever
\* section stands before it in a run.
LEMMA ReportedAreWrong ==
  ASSUME NEW doc \in Documents, NEW legacy \in BOOLEAN
  PROVE  /\ ReportedFields(doc, legacy) \subseteq WrongFields(doc, legacy)
         /\ WrongFields(doc, legacy) \cap RequiredFields \subseteq ReportedFields(doc, legacy)
         /\ WrongFields(doc, legacy) \subseteq Fields
  <1> DEFINE refused == RefusedSections(doc, legacy)
             people == "project.responsible_maintainers"
             first == Normalized(refused \ {people, "repository"})
             second == Normalized(refused \ {people, "sources"})
  <1>1. /\ refused \subseteq {people, "repository", "sources", "related_formalizations"}
        /\ people \in refused => PeopleRefused(doc.maintainers, legacy)
        /\ "repository" \in refused => doc.repository # NoRepository
    BY RefusedAre
  <1>2. /\ first \subseteq refused /\ second \subseteq refused
        /\ "sources" \in refused => "sources" \in first
        /\ "repository" \in refused => "repository" \in second
    BY NormalizedIs
  <1>3. /\ ProvenanceChecked(doc, legacy) \subseteq refused
        /\ "sources" \in refused => "sources" \in ProvenanceChecked(doc, legacy)
        /\ "repository" \in refused => "repository" \in ProvenanceChecked(doc, legacy)
    BY <1>1, <1>2 DEF ProvenanceChecked
  <1>4. PeopleRefused(doc.maintainers, legacy) <=> people \in refused
    BY DEF RefusedSections, Field
  <1>5. doc.malformed \subseteq PlainFields
    BY DEF Documents
  <1> HIDE DEF refused
  <1>6. ReportedFields(doc, legacy) =
          doc.malformed \cup Field("project.authors", PeopleRefused(doc.authors, legacy))
          \cup Field(people, PeopleRefused(doc.maintainers, legacy))
          \cup ProvenanceChecked(doc, legacy)
    BY DEF ReportedFields
  <1>7. WrongFields(doc, legacy) =
          doc.malformed \cup Field("project.authors", PeopleRefused(doc.authors, legacy))
          \cup refused
    BY DEF WrongFields, refused
  <1>8. /\ Field("project.authors", PeopleRefused(doc.authors, legacy)) \subseteq {"project.authors"}
        /\ Field(people, PeopleRefused(doc.maintainers, legacy)) = refused \cap {people}
    BY <1>4 DEF Field
  <1> HIDE DEF first, second
  <1>9. ReportedFields(doc, legacy) \subseteq WrongFields(doc, legacy)
    BY <1>3, <1>6, <1>7, <1>8
  <1>10. WrongFields(doc, legacy) \cap RequiredFields \subseteq ReportedFields(doc, legacy)
    BY <1>1, <1>3, <1>6, <1>7, <1>8 DEF RequiredFields
  <1>11. WrongFields(doc, legacy) \subseteq Fields
    BY <1>1, <1>5, <1>7, <1>8 DEF Fields
  <1> QED
    BY <1>9, <1>10, <1>11

-----------------------------------------------------------------------------
(* Issues                                                                  *)

PreparationCauses == PreparationFindings \cup
                     {"input", "internal", "registry", "detector", "release", "lookup"}

\* The owner of an issue is that of its cause, so that two with one key have one.
IssueOwner(cause) ==
    CASE cause \in PreparationFindings \cup {"input"} -> "submitter"
      [] cause = "lookup"                             -> "provider"
      [] OTHER                                        -> "palomar"

Raised == {d \in Diagnostics : d.cause \in PreparationCauses /\ d.owner = IssueOwner(d.cause)}

Elements(issues) == {issues[i] : i \in DOMAIN issues}

\* The metadata fields that diagnostics name.
NamedIn(diagnostics) == {d.field : d \in {e \in diagnostics : e.cause = "metadata"}}

\* Issues that preparation raises, none of them of the metadata.
Plain(issues) == issues \in Seq(Raised) /\ NamedIn(Elements(issues)) = {}

LEMMA IssueIsRaised ==
  ASSUME NEW c \in PreparationCauses, NEW f \in DiagnosedFields, NEW o, o = IssueOwner(c)
  PROVE  /\ Issue(c, f, o) \in Raised
         /\ Issue(c, f, o).cause = c /\ Issue(c, f, o).field = f /\ Issue(c, f, o).owner = o
  <1>1. c \in Causes
    BY DEF PreparationCauses, Causes
  <1>2. o \in Owners
    BY DEF IssueOwner, Owners
  <1>3. Issue(c, f, o) = [cause |-> c, field |-> f, owner |-> o]
    BY DEF Issue
  <1> HIDE DEF Causes, Owners, DiagnosedFields
  <1>4. Issue(c, f, o) \in Diagnostics
    BY <1>1, <1>2, <1>3 DEF Diagnostics
  <1> QED
    BY <1>3, <1>4 DEF Raised

LEMMA EmptyIsField == "" \in DiagnosedFields
  BY Zenon DEF DiagnosedFields

LEMMA NoneIsPlain == Plain(<<>>)
  BY DEF Plain, NamedIn, Elements

LEMMA OneIsPlain ==
  ASSUME NEW d \in Raised, d.cause # "metadata"
  PROVE  Plain(<<d>>)
  <1>1. <<d>> \in Seq(Raised) /\ Elements(<<d>>) = {d}
    BY DEF Elements
  <1> QED
    BY <1>1 DEF Plain, NamedIn

LEMMA IssueIsPlain ==
  ASSUME NEW c \in PreparationCauses \ {"metadata"}, NEW f \in DiagnosedFields, NEW o, o = IssueOwner(c)
  PROVE  Plain(<<Issue(c, f, o)>>)
  BY IssueIsRaised, OneIsPlain

LEMMA RejectsIsPlain ==
  ASSUME NEW c \in PreparationFindings \ {"metadata"}
  PROVE  Plain(Rejects(c))
  <1>1. PICK none \in DiagnosedFields : none = ""
    BY EmptyIsField
  <1>2. c \in PreparationFindings /\ c \in PreparationCauses
    BY DEF PreparationCauses
  <1>4. IssueOwner(c) = "submitter"
    BY <1>2 DEF IssueOwner, PreparationFindings
  <1>3. Plain(<<Issue(c, none, "submitter")>>)
    BY <1>2, <1>4, IssueIsPlain
  <1> QED
    BY <1>1, <1>3, Zenon DEF Rejects

LEMMA OutagesArePlain ==
  /\ Plain(InternalIssue)
  /\ Plain(<<Issue("input", "", "submitter")>>)
  /\ Plain(<<Issue("registry", "", "palomar")>>)
  /\ Plain(<<Issue("detector", "", "palomar")>>)
  /\ Plain(<<Issue("release", "", "palomar")>>)
  /\ Plain(<<Issue("lookup", "", "provider")>>)
  <1>1. PICK none \in DiagnosedFields : none = ""
    BY EmptyIsField
  <1>2. /\ Plain(<<Issue("internal", none, "palomar")>>)
        /\ Plain(<<Issue("input", none, "submitter")>>)
        /\ Plain(<<Issue("registry", none, "palomar")>>)
        /\ Plain(<<Issue("detector", none, "palomar")>>)
        /\ Plain(<<Issue("release", none, "palomar")>>)
        /\ Plain(<<Issue("lookup", none, "provider")>>)
    BY IssueIsPlain DEF PreparationCauses, PreparationFindings, IssueOwner
  <1> QED
    BY <1>1, <1>2, Zenon DEF InternalIssue

LEMMA ElementsOfBoth ==
  ASSUME NEW T, NEW a \in Seq(T), NEW b \in Seq(T)
  PROVE  a \o b \in Seq(T) /\ Elements(a \o b) = Elements(a) \cup Elements(b)
  <1>1. /\ a \o b \in Seq(T) /\ DOMAIN (a \o b) = 1 .. (Len(a) + Len(b))
        /\ Len(a) \in Nat /\ Len(b) \in Nat /\ DOMAIN a = 1 .. Len(a) /\ DOMAIN b = 1 .. Len(b)
    OBVIOUS
  <1>2. ASSUME NEW x \in Elements(a \o b) PROVE x \in Elements(a) \cup Elements(b)
    <2>1. PICK i \in DOMAIN (a \o b) : x = (a \o b)[i]
      BY <1>2 DEF Elements
    <2>2. CASE i <= Len(a)
      BY <1>1, <2>1, <2>2 DEF Elements
    <2>3. CASE i > Len(a)
      <3>1. i - Len(a) \in DOMAIN b /\ x = b[i - Len(a)]
        BY <1>1, <2>1, <2>3
      <3> QED
        BY <3>1 DEF Elements
    <2> QED
      BY <1>1, <2>1, <2>2, <2>3
  <1>3. ASSUME NEW i \in DOMAIN a PROVE a[i] \in Elements(a \o b)
    <2>1. i \in DOMAIN (a \o b) /\ (a \o b)[i] = a[i]
      BY <1>1
    <2> QED
      BY <2>1, Zenon DEF Elements
  <1>4. ASSUME NEW i \in DOMAIN b PROVE b[i] \in Elements(a \o b)
    <2>1. Len(a) + i \in DOMAIN (a \o b) /\ (a \o b)[Len(a) + i] = b[i]
      BY <1>1
    <2> QED
      BY <2>1, Zenon DEF Elements
  <1>5. Elements(a) \cup Elements(b) \subseteq Elements(a \o b)
    BY <1>3, <1>4 DEF Elements
  <1>6. Elements(a \o b) \subseteq Elements(a) \cup Elements(b)
    BY <1>2
  <1> QED
    BY <1>1, <1>5, <1>6

LEMMA BothNamed ==
  ASSUME NEW a \in Seq(Raised), NEW b \in Seq(Raised)
  PROVE  /\ a \o b \in Seq(Raised)
         /\ NamedIn(Elements(a \o b)) = NamedIn(Elements(a)) \cup NamedIn(Elements(b))
  <1>1. a \o b \in Seq(Raised) /\ Elements(a \o b) = Elements(a) \cup Elements(b)
    BY ElementsOfBoth
  <1> QED
    BY <1>1 DEF NamedIn

LEMMA PlainAddsNone ==
  ASSUME NEW a \in Seq(Raised), NEW b, Plain(b)
  PROVE  /\ a \o b \in Seq(Raised) /\ NamedIn(Elements(a \o b)) = NamedIn(Elements(a))
         /\ b \o a \in Seq(Raised) /\ NamedIn(Elements(b \o a)) = NamedIn(Elements(a))
  <1>1. b \in Seq(Raised) /\ NamedIn(Elements(b)) = {}
    BY DEF Plain
  <1>2. /\ a \o b \in Seq(Raised)
        /\ NamedIn(Elements(a \o b)) = NamedIn(Elements(a)) \cup NamedIn(Elements(b))
        /\ b \o a \in Seq(Raised)
        /\ NamedIn(Elements(b \o a)) = NamedIn(Elements(b)) \cup NamedIn(Elements(a))
    BY <1>1, BothNamed
  <1> HIDE DEF NamedIn
  <1> QED
    BY <1>1, <1>2, Zenon

LEMMA BothPlain ==
  ASSUME NEW a, NEW b, Plain(a), Plain(b)
  PROVE  Plain(a \o b)
  BY BothNamed DEF Plain

-----------------------------------------------------------------------------
(* What each check comes to                                                *)

LEMMA CheckoutIsPlain ==
  ASSUME NEW checkout
  PROVE  Plain(CheckoutIssue(checkout))
  <1>1. Plain(Rejects("checkout")) /\ Plain(InternalIssue) /\ Plain(<<>>)
    BY RejectsIsPlain, OutagesArePlain, NoneIsPlain DEF PreparationFindings
  <1> QED
    BY <1>1 DEF CheckoutIssue

LEMMA FileIsPlain ==
  ASSUME NEW file \in {SourceFiles[1], SourceFiles[2], SourceFiles[3]}, NEW kind \in FileKinds
  PROVE  Plain(FileIssues(file, kind))
  <1>1. file \in DiagnosedFields
    BY Zenon DEF DiagnosedFields
  <1>2. \A c \in {"long", "headless", "symlink", "undecodable"} :
          c \in PreparationCauses \ {"metadata"} /\ IssueOwner(c) = "submitter"
    BY DEF PreparationCauses, PreparationFindings, IssueOwner
  <1>3. \A c \in {"long", "headless", "symlink", "undecodable"} :
          Plain(<<Issue(c, file, "submitter")>>)
    BY <1>1, <1>2, IssueIsPlain
  <1>4. Plain(<<Issue("long", file, "submitter")>> \o <<Issue("headless", file, "submitter")>>)
    BY <1>3, BothPlain
  <1>5. Plain(<<Issue("long", file, "submitter")>> \o <<>>)
    BY <1>3, BothPlain, NoneIsPlain
  <1>6. kind \in {"fine", "long", "headless", "long-headless", "symlink", "undecodable"}
    BY DEF FileKinds
  <1> HIDE DEF Plain, Issue
  <1> QED
    BY <1>3, <1>4, <1>5, <1>6, NoneIsPlain DEF FileIssues

LEMMA SourcesArePlain ==
  ASSUME NEW kinds \in [1 .. Len(SourceFiles) -> FileKinds]
  PROVE  Plain(SourceIssues(kinds))
  <1>1. kinds[1] \in FileKinds /\ kinds[2] \in FileKinds /\ kinds[3] \in FileKinds
    BY DEF SourceFiles
  <1>2. /\ Plain(FileIssues(SourceFiles[1], kinds[1]))
        /\ Plain(FileIssues(SourceFiles[2], kinds[2]))
        /\ Plain(FileIssues(SourceFiles[3], kinds[3]))
    BY <1>1, FileIsPlain
  <1> QED
    BY <1>2, BothPlain DEF SourceIssues

LEMMA AnswerIsPlain ==
  ASSUME NEW answer \in Answers
  PROVE  Plain(AnswerIssue(answer))
  <1>1. Plain(Rejects("orcid"))
    BY RejectsIsPlain DEF PreparationFindings
  <1> QED
    BY <1>1, NoneIsPlain, OutagesArePlain DEF AnswerIssue

\* The first iD that does not hold is one of them.
LEMMA OrcidIsPlain ==
  ASSUME NEW answers \in Seq(Answers)
  PROVE  Plain(OrcidIssues(answers))
  <1> DEFINE refused == {i \in DOMAIN answers : answers[i] # "found"}
  <1>1. CASE refused = {}
    BY <1>1, NoneIsPlain DEF OrcidIssues
  <1>2. CASE refused # {}
    <2>1. refused \subseteq 1 .. Len(answers) /\ refused \in SUBSET Nat
      OBVIOUS
    <2> DEFINE first == CHOOSE i \in refused : \A j \in refused : i <= j
    <2>2. first \in refused
      <3>1. \E i \in refused : \A j \in refused : i <= j
        <4> HIDE DEF refused
        <4> QED
          BY <1>2, <2>1, LeastElement
      <3> QED
        BY <3>1
    <2>3. OrcidIssues(answers) = AnswerIssue(answers[first])
      BY <1>2 DEF OrcidIssues
    <2>4. answers[first] \in Answers
      BY <2>2
    <2> QED
      BY <2>3, <2>4, AnswerIsPlain
  <1> QED
    BY <1>1, <1>2

LEMMA LicenceIsPlain ==
  ASSUME NEW licence, NEW loaded
  PROVE  Plain(LicenceIssues(licence, loaded))
  <1>1. Plain(Rejects("licence"))
    BY RejectsIsPlain DEF PreparationFindings
  <1> QED
    BY <1>1, NoneIsPlain, OutagesArePlain DEF LicenceIssues

LEMMA ToolchainIsPlain ==
  ASSUME NEW toolchain \in Toolchains
  PROVE  Plain(ToolchainIssues(toolchain))
  <1>1. Plain(Rejects("toolchain"))
    BY RejectsIsPlain DEF PreparationFindings
  <1> QED
    BY <1>1, NoneIsPlain, OutagesArePlain DEF ToolchainIssues, Toolchains

LEMMA ConfigurationIsPlain ==
  ASSUME NEW configuration
  PROVE  Plain(ConfigurationIssues(configuration))
  <1>1. Plain(Rejects("comparator"))
    BY RejectsIsPlain DEF PreparationFindings
  <1> QED
    BY <1>1, NoneIsPlain DEF ConfigurationIssues

LEMMA SubstantiveIsPlain ==
  ASSUME NEW s, NEW legacy
  PROVE  Plain(SubstantiveIssues(s, legacy))
  <1>1. Plain(Rejects("substantive"))
    BY RejectsIsPlain DEF PreparationFindings
  <1> QED
    BY <1>1, NoneIsPlain, CheckoutIsPlain DEF SubstantiveIssues

LEMMA OrderedFields ==
  /\ FieldOrder \in Seq(Fields)
  /\ \A f \in Fields : \E i \in 1 .. Len(FieldOrder) : FieldOrder[i] = f
  <1>1. Len(FieldOrder) = 12 /\ FieldOrder \in Seq(Fields)
    BY DEF FieldOrder, Fields, PlainFields
  <1>2. /\ FieldOrder[1] = "project.name" /\ FieldOrder[2] = "project.description"
        /\ FieldOrder[3] = "project.authors" /\ FieldOrder[4] = "project.license"
        /\ FieldOrder[5] = "project.responsible_maintainers"
        /\ FieldOrder[6] = "classification.arxiv" /\ FieldOrder[7] = "classification.msc2020"
        /\ FieldOrder[8] = "sources" /\ FieldOrder[9] = "repository"
        /\ FieldOrder[10] = "related_formalizations" /\ FieldOrder[11] = "automation.methods"
        /\ FieldOrder[12] = "review.status"
    BY DEF FieldOrder
  <1>3. \A f \in Fields : \E i \in 1 .. 12 : FieldOrder[i] = f
    BY <1>2 DEF Fields, PlainFields
  <1> QED
    BY <1>1, <1>3

\* A metadata issue for each reported field, and no other.
LEMMA MetadataIsNamed ==
  ASSUME NEW doc \in Documents, NEW legacy \in BOOLEAN
  PROVE  /\ MetadataIssues(doc, legacy) \in Seq(Raised)
         /\ NamedIn(Elements(MetadataIssues(doc, legacy))) = ReportedFields(doc, legacy)
  <1> DEFINE S == ReportedFields(doc, legacy)
             fields == Selected(FieldOrder, S)
             issues == MetadataIssues(doc, legacy)
  <1>1. S \subseteq Fields
    BY ReportedAreWrong
  <1> HIDE DEF S
  <1>2. /\ fields \in Seq(Fields)
        /\ \E at : Embeds(fields, at, FieldOrder, S, Len(FieldOrder))
    BY OrderedFields, SelectedEmbeds
  <1>3. PICK at : Embeds(fields, at, FieldOrder, S, Len(FieldOrder))
    BY <1>2
  <1>4. issues = [i \in DOMAIN fields |-> Issue("metadata", fields[i], "submitter")]
    BY DEF MetadataIssues, S
  <1> HIDE DEF fields, issues
  <1>5. /\ "metadata" \in PreparationCauses /\ IssueOwner("metadata") = "submitter"
        /\ Fields \subseteq DiagnosedFields
    BY DEF PreparationCauses, PreparationFindings, IssueOwner, DiagnosedFields
  <1>6. /\ DOMAIN fields = 1 .. Len(fields) /\ Len(fields) \in Nat
        /\ \A i \in DOMAIN fields : fields[i] \in Fields
    BY <1>2
  <1>7. \A i \in DOMAIN fields :
          issues[i] \in Raised /\ issues[i].cause = "metadata" /\ issues[i].field = fields[i]
    BY <1>4, <1>5, <1>6, IssueIsRaised
  <1>8. DOMAIN issues = DOMAIN fields /\ issues \in Seq(Raised)
    BY <1>4, <1>6, <1>7
  <1>9. NamedIn(Elements(issues)) = {fields[i] : i \in DOMAIN fields}
    BY <1>7, <1>8 DEF NamedIn, Elements
  <1>10. \A i \in DOMAIN fields : fields[i] \in S
    BY <1>3, <1>6 DEF Embeds
  <1>11. \A f \in S : \E i \in DOMAIN fields : fields[i] = f
    <2> SUFFICES ASSUME NEW f \in S PROVE \E i \in DOMAIN fields : fields[i] = f
      OBVIOUS
    <2>1. PICK n \in 1 .. Len(FieldOrder) : FieldOrder[n] = f
      BY <1>1, OrderedFields
    <2>2. PICK k \in 1 .. Len(fields) : at[k] = n
      BY <1>3, <2>1 DEF Embeds
    <2>3. fields[k] = f
      BY <1>3, <2>1, <2>2 DEF Embeds
    <2> QED
      BY <1>6, <2>3
  <1> QED
    BY <1>8, <1>9, <1>10, <1>11 DEF S, issues

LEMMA EmptyNamesNone ==
  ASSUME NEW issues \in Seq(Raised)
  PROVE  issues = <<>> <=> Elements(issues) = {}
  <1>1. DOMAIN issues = 1 .. Len(issues) /\ Len(issues) \in Nat
    OBVIOUS
  <1>2. ASSUME issues # <<>> PROVE Elements(issues) # {}
    <2>1. 1 \in DOMAIN issues
      BY <1>1, <1>2
    <2> QED
      BY <2>1 DEF Elements
  <1>3. ASSUME issues = <<>> PROVE Elements(issues) = {}
    BY <1>3 DEF Elements
  <1> QED
    BY <1>2, <1>3

LEMMA SubmissionParts ==
  ASSUME NEW s \in Submissions
  PROVE  /\ s.sources \in [1 .. Len(SourceFiles) -> FileKinds]
         /\ s.file \in {"mapping", "malformed", "unforeseen"}
         /\ s.document \in Documents /\ s.answers \in Seq(Answers)
         /\ s.toolchain \in Toolchains
  BY DEF Submissions

\* The fields that FormalizationIssues names are those load_formalization_metadata
\* reports of a file that is a mapping, and if it loads there are none.
LEMMA FormalizationIsNamed ==
  ASSUME NEW s \in Submissions, NEW legacy \in BOOLEAN
  PROVE  /\ FormalizationIssues(s, legacy) \in Seq(Raised)
         /\ NamedIn(Elements(FormalizationIssues(s, legacy))) =
              IF s.file = "mapping" THEN ReportedFields(s.document, legacy) ELSE {}
  <1>1. s.document \in Documents /\ s.file \in {"mapping", "malformed", "unforeseen"}
    BY SubmissionParts
  <1>2. /\ MetadataIssues(s.document, legacy) \in Seq(Raised)
        /\ NamedIn(Elements(MetadataIssues(s.document, legacy)))
             = ReportedFields(s.document, legacy)
    BY <1>1, MetadataIsNamed
  <1>3. Plain(Rejects("yaml")) /\ Plain(InternalIssue) /\ Plain(SubstantiveIssues(s, legacy))
    BY RejectsIsPlain, OutagesArePlain, SubstantiveIsPlain DEF PreparationFindings
  <1>4. CASE s.file = "mapping"
    <2>1. CASE Loaded(s, legacy)
      <3>1. MetadataIssues(s.document, legacy) = <<>>
        BY <2>1 DEF Loaded
      <3>2. NamedIn(Elements(MetadataIssues(s.document, legacy))) = {}
        BY <3>1, NoneIsPlain DEF Plain
      <3>3. FormalizationIssues(s, legacy) = SubstantiveIssues(s, legacy)
        BY <1>4, <2>1 DEF FormalizationIssues
      <3> QED
        BY <1>2, <1>3, <1>4, <3>2, <3>3 DEF Plain
    <2>2. CASE ~ Loaded(s, legacy)
      <3>1. FormalizationIssues(s, legacy) = MetadataIssues(s.document, legacy)
        BY <1>4, <2>2 DEF FormalizationIssues
      <3> QED
        BY <1>2, <1>4, <3>1
    <2> QED
      BY <2>1, <2>2
  <1>5. CASE s.file # "mapping"
    <2>1. FormalizationIssues(s, legacy) \in {Rejects("yaml"), InternalIssue}
      BY <1>1, <1>5 DEF FormalizationIssues
    <2> QED
      BY <1>3, <1>5, <2>1 DEF Plain
  <1> QED
    BY <1>4, <1>5

LEMMA GroupsAreNamed ==
  ASSUME NEW s \in Submissions, NEW m
  PROVE  /\ GroupIssues(s, m) \in Seq(Raised)
         /\ NamedIn(Elements(GroupIssues(s, m))) =
              IF s.file = "mapping" THEN ReportedFields(s.document, m = "correction") ELSE {}
  <1> DEFINE legacy == m = "correction"
             sources == IF legacy THEN <<>> ELSE SourceIssues(s.sources)
             formalization == FormalizationIssues(s, legacy)
             orcid == IF Loaded(s, legacy) THEN OrcidIssues(s.answers) ELSE <<>>
             licence == LicenceIssues(s.licence, Loaded(s, legacy))
             toolchain == ToolchainIssues(s.toolchain)
             configuration == ConfigurationIssues(s.configuration)
  <1>1. Plain(sources) /\ Plain(orcid)
    BY SubmissionParts, SourcesArePlain, OrcidIsPlain, NoneIsPlain
  <1>2. Plain(licence) /\ Plain(toolchain) /\ Plain(configuration)
    BY SubmissionParts, LicenceIsPlain, ToolchainIsPlain, ConfigurationIsPlain
  <1>3. legacy \in BOOLEAN
    OBVIOUS
  <1>4. GroupIssues(s, m)
          = sources \o formalization \o orcid \o licence \o toolchain \o configuration
    BY DEF GroupIssues
  <1> HIDE DEF legacy
  <1>5. /\ formalization \in Seq(Raised)
        /\ NamedIn(Elements(formalization)) =
             IF s.file = "mapping" THEN ReportedFields(s.document, legacy) ELSE {}
    BY <1>3, FormalizationIsNamed
  <1> HIDE DEF sources, formalization, orcid, licence, toolchain, configuration
  <1>6. /\ sources \o formalization \in Seq(Raised)
        /\ NamedIn(Elements(sources \o formalization)) = NamedIn(Elements(formalization))
    BY <1>1, <1>5, PlainAddsNone
  <1>7. /\ sources \o formalization \o orcid \in Seq(Raised)
        /\ NamedIn(Elements(sources \o formalization \o orcid))
             = NamedIn(Elements(formalization))
    BY <1>1, <1>6, PlainAddsNone
  <1>8. /\ sources \o formalization \o orcid \o licence \in Seq(Raised)
        /\ NamedIn(Elements(sources \o formalization \o orcid \o licence))
             = NamedIn(Elements(formalization))
    BY <1>2, <1>7, PlainAddsNone
  <1>9. /\ sources \o formalization \o orcid \o licence \o toolchain \in Seq(Raised)
        /\ NamedIn(Elements(sources \o formalization \o orcid \o licence \o toolchain))
             = NamedIn(Elements(formalization))
    BY <1>2, <1>8, PlainAddsNone
  <1>10. /\ sources \o formalization \o orcid \o licence \o toolchain \o configuration
              \in Seq(Raised)
         /\ NamedIn(Elements(sources \o formalization \o orcid \o licence \o toolchain
                             \o configuration))
              = NamedIn(Elements(formalization))
    BY <1>2, <1>9, PlainAddsNone
  <1> QED
    BY <1>4, <1>5, <1>10 DEF legacy

LEMMA CheckedIsPlain ==
  ASSUME NEW s, NEW m
  PROVE  Plain(CheckedInOrder(s, m))
  <1>1. Plain(Rejects("project"))
    BY RejectsIsPlain DEF PreparationFindings
  <1>2. Plain(InternalIssue) /\ Plain(<<Issue("input", "", "submitter")>>)
    BY OutagesArePlain
  <1>3. CheckedInOrder(s, m) \in
          {<<Issue("input", "", "submitter")>>, CheckoutIssue(s.checkout), Rejects("project"),
           InternalIssue, <<>>}
    BY Zenon DEF CheckedInOrder
  <1> QED
    BY <1>1, <1>2, <1>3, NoneIsPlain, CheckoutIsPlain

\* The metadata fields that are wrong, if it came to checking them.
WrongIn(s, m) ==
    IF s.file = "mapping" /\ CheckedInOrder(s, m) = <<>>
    THEN WrongFields(s.document, m = "correction") ELSE {}

\* Preparation's issues are owned by their causes, and their metadata fields are
\* wrong ones, and among them all that are required.
THEOREM IssuesNameFields ==
  ASSUME NEW s \in Submissions, NEW m
  PROVE  /\ Issues(s, m) \in Seq(Raised)
         /\ NamedIn(Elements(Issues(s, m))) \subseteq WrongIn(s, m)
         /\ WrongIn(s, m) \cap RequiredFields \subseteq NamedIn(Elements(Issues(s, m)))
         /\ WrongIn(s, m) \subseteq Fields
  <1> DEFINE legacy == m = "correction"
             reported == ReportedFields(s.document, legacy)
             wrong == WrongFields(s.document, legacy)
  <1>1. /\ reported \subseteq wrong /\ wrong \cap RequiredFields \subseteq reported
        /\ wrong \subseteq Fields
    <2>1. legacy \in BOOLEAN
      OBVIOUS
    <2> HIDE DEF legacy
    <2> QED
      BY <2>1, SubmissionParts, ReportedAreWrong
  <1>2. /\ GroupIssues(s, m) \in Seq(Raised)
        /\ NamedIn(Elements(GroupIssues(s, m))) = IF s.file = "mapping" THEN reported ELSE {}
    BY GroupsAreNamed
  <1>3. WrongIn(s, m) = IF s.file = "mapping" /\ CheckedInOrder(s, m) = <<>> THEN wrong ELSE {}
    BY DEF WrongIn
  <1> HIDE DEF legacy, reported, wrong
  <1>4. CASE CheckedInOrder(s, m) # <<>>
    <2>1. Issues(s, m) = CheckedInOrder(s, m) /\ WrongIn(s, m) = {}
      BY <1>3, <1>4 DEF Issues
    <2> QED
      BY <2>1, CheckedIsPlain DEF Plain
  <1>5. CASE CheckedInOrder(s, m) = <<>> /\ GroupIssues(s, m) # <<>>
    <2>1. Issues(s, m) = GroupIssues(s, m)
      BY <1>5 DEF Issues
    <2> QED
      BY <1>1, <1>2, <1>3, <1>5, <2>1
  <1>6. CASE CheckedInOrder(s, m) = <<>> /\ GroupIssues(s, m) = <<>>
    <2>1. Issues(s, m) = EvidenceIssues(s, m)
      BY <1>6 DEF Issues
    <2>2. Plain(EvidenceIssues(s, m))
      <3>1. Plain(Rejects("baseline"))
        BY RejectsIsPlain DEF PreparationFindings
      <3> QED
        BY <3>1, NoneIsPlain DEF EvidenceIssues
    <2>3. NamedIn(Elements(GroupIssues(s, m))) = {}
      BY <1>6, NoneIsPlain DEF Plain
    <2> QED
      BY <1>1, <1>2, <1>3, <1>6, <2>1, <2>2, <2>3 DEF Plain
  <1> QED
    BY <1>4, <1>5, <1>6

-----------------------------------------------------------------------------
(* What a report keeps                                                     *)

\* The recursion of Reported, unfolded: after[i] holds the first i issues.
Records(after, issues) ==
    /\ after \in [0 .. Len(issues) -> Reports]
    /\ after[0] = NoReport
    /\ \A i \in 1 .. Len(issues) : after[i] = Diagnosed(after[i - 1], issues[i])

\* The report that is made of what was recorded last.
Concludes(r, last) ==
    \E yes \in BOOLEAN : /\ yes
                        /\ r = [status |-> StatusByOwners(last), errors |-> yes,
                                diagnostics |-> last.diagnostics]

LEMMA NoReportIsOne == NoReport \in Reports /\ NoReport.diagnostics = {}
  <1>1. PICK no \in BOOLEAN : no = FALSE
    OBVIOUS
  <1>2. NoReport = [status |-> "none", errors |-> no, diagnostics |-> {}]
    BY <1>1, Zenon DEF NoReport
  <1> QED
    BY <1>2 DEF Reports, Statuses

LEMMA DiagnosedType ==
  ASSUME NEW r \in Reports, NEW d \in Diagnostics
  PROVE  /\ Diagnosed(r, d) \in Reports
         /\ Diagnosed(r, d).diagnostics \in {r.diagnostics, r.diagnostics \cup {d}}
         /\ \/ Cardinality(r.diagnostics) >= MAX_DIAGNOSTICS
            \/ \E e \in Diagnosed(r, d).diagnostics : e.cause = d.cause /\ e.field = d.field
  <1>1. [r EXCEPT !.diagnostics = @ \cup {d}] \in Reports
    BY DEF Reports
  <1>2. [r EXCEPT !.diagnostics = @ \cup {d}].diagnostics = r.diagnostics \cup {d}
    BY DEF Reports
  <1>3. CASE Cardinality(r.diagnostics) >= MAX_DIAGNOSTICS
    <2>1. Diagnosed(r, d) = r
      BY <1>3 DEF Diagnosed
    <2> QED
      BY <1>3, <2>1
  <1>4. CASE \E e \in r.diagnostics : e.cause = d.cause /\ e.field = d.field
    <2>1. Diagnosed(r, d) = r
      BY <1>4 DEF Diagnosed
    <2> QED
      BY <1>4, <2>1
  <1>5. CASE /\ ~ (Cardinality(r.diagnostics) >= MAX_DIAGNOSTICS)
             /\ ~ \E e \in r.diagnostics : e.cause = d.cause /\ e.field = d.field
    <2>1. Diagnosed(r, d) = [r EXCEPT !.diagnostics = @ \cup {d}]
      BY <1>5 DEF Diagnosed
    <2>2. d \in Diagnosed(r, d).diagnostics
      BY <1>2, <2>1
    <2> QED
      BY <1>1, <1>2, <2>1, <2>2
  <1> QED
    BY <1>3, <1>4, <1>5

LEMMA ReportedUnfolds ==
  ASSUME NEW issues \in Seq(Diagnostics)
  PROVE  \E after : Records(after, issues) /\ Concludes(Reported(issues), after[Len(issues)])
  <1> DEFINE n == Len(issues)
             step == [x \in Reports \X (1 .. n) |-> Diagnosed(x[1], issues[x[2]])]
             body(f) == [i \in 0 .. n |->
                           IF i = 0 THEN NoReport ELSE Diagnosed(f[i - 1], issues[i])]
  <1>1. n \in Nat /\ \A i \in 1 .. n : issues[i] \in Diagnostics
    OBVIOUS
  <1>2. step \in [Reports \X (1 .. n) -> Reports]
    <2>1. ASSUME NEW x \in Reports \X (1 .. n) PROVE Diagnosed(x[1], issues[x[2]]) \in Reports
      <3>1. x[1] \in Reports /\ issues[x[2]] \in Diagnostics
        BY <1>1
      <3> QED
        BY <3>1, DiagnosedType
    <2> QED
      BY <2>1
  <1>3. PICK h : Iterates(h, n, Reports, NoReport, step)
    <2> HIDE DEF step, n
    <2> QED
      BY <1>1, <1>2, NoReportIsOne, RecursionExists
  <1>4. /\ h \in [0 .. n -> Reports] /\ h[0] = NoReport
        /\ \A i \in 1 .. n : h[i] = Diagnosed(h[i - 1], issues[i])
    <2>1. ASSUME NEW i \in 1 .. n PROVE h[i] = Diagnosed(h[i - 1], issues[i])
      <3>1. <<h[i - 1], i>> \in Reports \X (1 .. n)
        BY <1>3 DEF Iterates
      <3>2. h[i] = step[<<h[i - 1], i>>]
        BY <1>3 DEF Iterates
      <3> QED
        BY <3>1, <3>2
    <2> QED
      BY <1>3, <2>1 DEF Iterates
  <1>5. h = body(h)
    <2>1. ASSUME NEW i \in 0 .. n PROVE h[i] = body(h)[i]
      <3>1. i # 0 => i \in 1 .. n
        OBVIOUS
      <3> QED
        BY <1>4, <3>1
    <2> QED
      BY <1>4, <2>1
  <1> DEFINE g == CHOOSE f : f = body(f)
  <1>6. g = body(g)
    BY <1>5
  <1>7. PICK yes \in BOOLEAN : yes = TRUE
    OBVIOUS
  <1>8. Reported(issues) = [status |-> StatusByOwners(g[n]), errors |-> yes,
                            diagnostics |-> g[n].diagnostics]
    BY <1>7, Zenon DEF Reported
  <1> HIDE DEF g, n, step
  <1>9. \A i \in 0 .. n : g[i] = h[i]
    <2> DEFINE Same == {i \in 0 .. n : g[i] = h[i]}
    <2>1. 0 \in Same
      BY <1>1, <1>4, <1>6
    <2>2. ASSUME NEW i \in 0 .. (n - 1), i \in Same
          PROVE  i + 1 \in Same
      <3>1. i + 1 \in 1 .. n /\ i + 1 - 1 = i /\ i + 1 \in 0 .. n /\ i + 1 # 0
        BY <1>1
      <3>2. g[i + 1] = body(g)[i + 1]
        BY <1>6
      <3>3. body(g)[i + 1] = Diagnosed(g[i], issues[i + 1])
        BY <3>1
      <3> QED
        BY <1>4, <2>2, <3>1, <3>2, <3>3
    <2> HIDE DEF Same
    <2>3. 0 .. n \subseteq Same
      BY <1>1, <2>1, <2>2, SetInduction
    <2> QED
      BY <2>3 DEF Same
  <1>10. g[n] = h[n]
    BY <1>1, <1>9
  <1>11. Records(h, issues)
    BY <1>4 DEF Records, n
  <1>12. Concludes(Reported(issues), g[n])
    BY <1>7, <1>8 DEF Concludes
  <1> QED
    BY <1>10, <1>11, <1>12 DEF n

\* All that is recorded is an issue; the first always is, and below the cap each is,
\* by its key.
LEMMA ReportedKeeps ==
  ASSUME NEW issues \in Seq(Diagnostics)
  PROVE  /\ Reported(issues).diagnostics \subseteq Elements(issues)
         /\ issues # <<>> => Reported(issues).diagnostics # {}
         /\ ~ (Len(issues) > MAX_DIAGNOSTICS) =>
              \A d \in Elements(issues) : \E e \in Reported(issues).diagnostics :
                 e.cause = d.cause /\ e.field = d.field
         /\ Reported(issues).status =
              IF {d.owner : d \in Reported(issues).diagnostics} \ {"submitter"} # {}
              THEN "error" ELSE "fail"
         /\ Reported(issues).errors
         /\ Reported(issues) \in Reports
  <1>1. PICK after : Records(after, issues) /\ Concludes(Reported(issues), after[Len(issues)])
    BY ReportedUnfolds
  <1> DEFINE n == Len(issues)
             held(i) == after[i].diagnostics
             all == Elements(issues)
             kept(i, k) == \E e \in held(i) : e.cause = issues[k].cause /\ e.field = issues[k].field
             S == {i \in 0 .. n : /\ held(i) \subseteq all
                                  /\ IsFiniteSet(held(i)) /\ Cardinality(held(i)) <= i
                                  /\ i > 0 => held(i) # {}
                                  /\ n <= MAX_DIAGNOSTICS => \A k \in 1 .. i : kept(i, k)}
  <1>2. n \in Nat /\ \A i \in 1 .. n : issues[i] \in Diagnostics /\ issues[i] \in all
    BY DEF Elements
  <1>3. MAX_DIAGNOSTICS \in Nat /\ MAX_DIAGNOSTICS > 0
    BY CapAssumption
  <1>4. 0 \in S
    <2>1. held(0) = {}
      BY <1>1, NoReportIsOne DEF Records
    <2>2. IsFiniteSet(held(0)) /\ Cardinality(held(0)) = 0
      BY <2>1, FS_EmptySet
    <2> HIDE DEF held, all
    <2> QED
      BY <1>2, <2>1, <2>2
  <1>5. ASSUME NEW i \in 0 .. (n - 1), i \in S
        PROVE  i + 1 \in S
    <2> DEFINE d == issues[i + 1]
    <2>1. i + 1 \in 1 .. n /\ i + 1 - 1 = i /\ i \in 0 .. n /\ i + 1 \in 0 .. n /\ i \in Nat
      BY <1>2
    <2>2. after[i + 1] = Diagnosed(after[i], d) /\ after[i] \in Reports
      BY <1>1, <2>1 DEF Records
    <2>3. d \in Diagnostics /\ d \in all
      BY <1>2, <2>1
    <2> HIDE DEF d, all
    <2>4. /\ held(i + 1) \in {held(i), held(i) \cup {d}}
          /\ \/ Cardinality(held(i)) >= MAX_DIAGNOSTICS
             \/ \E e \in held(i + 1) : e.cause = d.cause /\ e.field = d.field
      BY <2>2, <2>3, DiagnosedType
    <2>5. /\ held(i) \subseteq all /\ IsFiniteSet(held(i)) /\ Cardinality(held(i)) <= i
          /\ Cardinality(held(i)) \in Nat
          /\ i > 0 => held(i) # {}
          /\ n <= MAX_DIAGNOSTICS => \A k \in 1 .. i : kept(i, k)
      BY <1>5, FS_CardinalityType
    <2> HIDE DEF held
    <2>6. IsFiniteSet(held(i + 1)) /\ Cardinality(held(i + 1)) <= i + 1
      <3>1. /\ IsFiniteSet(held(i) \cup {d})
            /\ \/ Cardinality(held(i) \cup {d}) = Cardinality(held(i))
               \/ Cardinality(held(i) \cup {d}) = Cardinality(held(i)) + 1
        BY <2>5, FS_AddElement
      <3>2. CASE held(i + 1) = held(i)
        BY <2>1, <2>5, <3>2
      <3>3. CASE held(i + 1) = held(i) \cup {d}
        <4>1. Cardinality(held(i) \cup {d}) <= i + 1
          BY <2>1, <2>5, <3>1
        <4> QED
          BY <3>1, <3>3, <4>1
      <3> QED
        BY <2>4, <3>2, <3>3
    <2>7. held(i + 1) \subseteq all /\ held(i) \subseteq held(i + 1)
      BY <2>3, <2>4, <2>5
    <2>8. held(i + 1) # {}
      <3>1. CASE i = 0
        <4>1. ~ (Cardinality(held(i)) >= MAX_DIAGNOSTICS)
          BY <1>3, <2>5, <3>1
        <4> QED
          BY <2>4, <4>1
      <3>2. CASE i > 0
        BY <2>5, <2>7, <3>2
      <3> QED
        BY <2>1, <3>1, <3>2
    <2>9. ASSUME n <= MAX_DIAGNOSTICS, NEW k \in 1 .. (i + 1)
          PROVE  kept(i + 1, k)
      <3>1. CASE k \in 1 .. i
        BY <2>5, <2>7, <2>9, <3>1
      <3>2. CASE k = i + 1
        <4>1. ~ (Cardinality(held(i)) >= MAX_DIAGNOSTICS)
          BY <1>2, <1>3, <2>1, <2>5, <2>9
        <4> QED
          BY <2>4, <3>2, <4>1 DEF d
      <3> QED
        BY <2>1, <3>1, <3>2
    <2> HIDE DEF kept
    <2> QED
      BY <2>1, <2>6, <2>7, <2>8, <2>9
  <1> HIDE DEF S
  <1>6. 0 .. n \subseteq S
    BY <1>2, <1>4, <1>5, SetInduction
  <1>7. n \in S
    BY <1>2, <1>6
  <1>8. PICK yes \in BOOLEAN :
          /\ yes
          /\ Reported(issues) = [status |-> StatusByOwners(after[n]), errors |-> yes,
                                 diagnostics |-> after[n].diagnostics]
    BY <1>1 DEF Concludes
  <1>9. /\ Reported(issues).diagnostics = held(n) /\ Reported(issues).errors
        /\ Reported(issues).status = StatusByOwners(after[n])
    BY <1>8
  <1>10. Reported(issues) \in Reports
    <2>1. after[n] \in Reports
      BY <1>1, <1>2 DEF Records
    <2>2. after[n].diagnostics \in SUBSET Diagnostics
      BY <2>1 DEF Reports
    <2>3. StatusByOwners(after[n]) \in Statuses
      BY DEF StatusByOwners, Statuses
    <2> HIDE DEF StatusByOwners, Statuses, Diagnostics
    <2> QED
      BY <1>8, <2>2, <2>3 DEF Reports
  <1>11. \A d \in all : \E k \in 1 .. n : d = issues[k]
    BY <1>2 DEF Elements
  <1>12. /\ held(n) \subseteq all /\ (n > 0 => held(n) # {})
         /\ n <= MAX_DIAGNOSTICS => \A k \in 1 .. n : kept(n, k)
    BY <1>7 DEF S
  <1>13. issues # <<>> => n > 0
    BY <1>2
  <1>14. ~ (n > MAX_DIAGNOSTICS) => n <= MAX_DIAGNOSTICS
    BY <1>2, <1>3
  <1>15. StatusByOwners(after[n])
           = IF {d.owner : d \in held(n)} \ {"submitter"} # {} THEN "error" ELSE "fail"
    BY DEF StatusByOwners
  <1> HIDE DEF held, all
  <1>16. ~ (n > MAX_DIAGNOSTICS) =>
           \A d \in all : \E e \in held(n) : e.cause = d.cause /\ e.field = d.field
    BY <1>11, <1>12, <1>14
  <1> QED
    BY <1>9, <1>10, <1>12, <1>13, <1>15, <1>16 DEF all

LEMMA ElementsAreRaised ==
  ASSUME NEW issues \in Seq(Raised)
  PROVE  Elements(issues) \subseteq Raised /\ issues \in Seq(Diagnostics)
  <1>1. \A i \in DOMAIN issues : issues[i] \in Raised
    OBVIOUS
  <1>2. Raised \subseteq Diagnostics
    BY DEF Raised
  <1> HIDE DEF Raised, Diagnostics
  <1>3. issues \in Seq(Diagnostics)
    BY <1>1, <1>2
  <1> QED
    BY <1>1, <1>3 DEF Elements

LEMMA RaisedOwner ==
  ASSUME NEW d \in Raised
  PROVE  /\ d.owner = IssueOwner(d.cause)
         /\ d.owner = "submitter" => d.cause \in PreparationFindings \cup {"input"}
  <1>1. d.owner = IssueOwner(d.cause)
    BY DEF Raised
  <1>2. IssueOwner(d.cause) = "submitter" => d.cause \in PreparationFindings \cup {"input"}
    <2> HIDE DEF PreparationFindings
    <2> QED
      BY DEF IssueOwner
  <1> QED
    BY <1>1, <1>2

\* What preparation says of a submission with issues.
Faulted(s, m) ==
    LET r == PreparedReport(s, m)
    IN  /\ r.status \in {"fail", "error"} /\ r.errors /\ r.diagnostics # {}
        /\ r.status = "fail" => \A d \in r.diagnostics :
             d.owner = "submitter" /\ d.cause \in PreparationFindings \cup {"input"}
        /\ ~ Overflows(s, m) /\ OwnersOf(Issues(s, m)) \ {"submitter"} # {} =>
             r.status # "fail"
        /\ NamedIn(r.diagnostics) \subseteq WrongIn(s, m)
        /\ ~ Overflows(s, m) => WrongIn(s, m) \cap RequiredFields \subseteq NamedIn(r.diagnostics)

\* A report of issues rejects for findings against the submission alone.  One that
\* has room for them all names every required field that is wrong, and rejects none
\* for which a check could not be made.
THEOREM PreparationIsFair ==
  ASSUME NEW s \in Submissions, NEW m, Issues(s, m) # <<>>
  PROVE  Faulted(s, m) /\ PreparedReport(s, m) \in Reports
  <1> DEFINE issues == Issues(s, m)
             r == PreparedReport(s, m)
  <1>1. /\ issues \in Seq(Raised)
        /\ NamedIn(Elements(issues)) \subseteq WrongIn(s, m)
        /\ WrongIn(s, m) \cap RequiredFields \subseteq NamedIn(Elements(issues))
    BY IssuesNameFields
  <1>2. r = Reported(issues)
    BY DEF PreparedReport
  <1>3. OwnersOf(issues) = {d.owner : d \in Elements(issues)}
    BY DEF OwnersOf, Elements
  <1>4. Overflows(s, m) <=> Len(issues) > MAX_DIAGNOSTICS
    BY DEF Overflows
  <1>5. issues # <<>>
    OBVIOUS
  <1> HIDE DEF issues, r
  <1>6. Elements(issues) \subseteq Raised /\ issues \in Seq(Diagnostics)
    BY <1>1, ElementsAreRaised
  <1>7. /\ r.diagnostics \subseteq Elements(issues)
        /\ r.diagnostics # {}
        /\ ~ Overflows(s, m) =>
             \A d \in Elements(issues) : \E e \in r.diagnostics :
                e.cause = d.cause /\ e.field = d.field
        /\ r.status = IF {d.owner : d \in r.diagnostics} \ {"submitter"} # {}
                      THEN "error" ELSE "fail"
        /\ r.errors
        /\ r \in Reports
    BY <1>2, <1>4, <1>5, <1>6, ReportedKeeps
  <1>8. r.status = "fail" => \A d \in r.diagnostics : d.owner = "submitter"
    BY <1>7
  <1>9. r.status = "fail" => \A d \in r.diagnostics :
          d.owner = "submitter" /\ d.cause \in PreparationFindings \cup {"input"}
    BY <1>6, <1>7, <1>8, RaisedOwner
  <1>10. ASSUME ~ Overflows(s, m), OwnersOf(issues) \ {"submitter"} # {}
         PROVE  r.status # "fail"
    <2>1. PICK d \in Elements(issues) : d.owner # "submitter"
      BY <1>3, <1>10
    <2>2. PICK e \in r.diagnostics : e.cause = d.cause /\ e.field = d.field
      BY <1>7, <1>10, <2>1
    <2>3. e.owner = d.owner
      BY <1>6, <1>7, <2>1, <2>2, RaisedOwner
    <2> QED
      BY <1>8, <2>1, <2>2, <2>3
  <1>11. NamedIn(r.diagnostics) \subseteq WrongIn(s, m)
    BY <1>1, <1>7 DEF NamedIn
  <1>12. ~ Overflows(s, m) => NamedIn(Elements(issues)) \subseteq NamedIn(r.diagnostics)
    BY <1>7 DEF NamedIn
  <1>13. r.status \in {"fail", "error"}
    BY <1>7
  <1>14. ~ Overflows(s, m) => WrongIn(s, m) \cap RequiredFields \subseteq NamedIn(r.diagnostics)
    BY <1>1, <1>12
  <1> QED
    BY <1>7, <1>9, <1>10, <1>11, <1>13, <1>14 DEF Faulted, issues, r
=============================================================================

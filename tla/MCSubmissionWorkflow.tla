------------------------ MODULE MCSubmissionWorkflow ------------------------
(***************************************************************************)
(* Submissions for the model checker: one in order for each kind of        *)
(* request, every way to fail on its own that the report can tell apart,   *)
(* and combinations in which groups hide or crowd out one another.         *)
(***************************************************************************)
EXTENDS SubmissionWorkflow

GoodDocument == [malformed |-> {}, authors |-> "named", maintainers |-> "named",
                 sources |-> {"prior"}, related |-> "fine", repository |-> NoRepository]

GoodRequest == [options |-> "valid", relationship |-> "maintainer",
                correction |-> "none", target |-> "registered"]

Correction == [GoodRequest EXCEPT !.relationship = "palomar-maintainer",
                                  !.correction = "valid"]

Good == [request |-> GoodRequest, checkout |-> "fetched", project |-> "fine",
         sources |-> <<"fine", "fine", "headless">>, file |-> "mapping",
         document |-> GoodDocument, substantive |-> "fetched", answers |-> <<"found">>,
         licence |-> "declared", toolchain |-> "released", configuration |-> "valid",
         baseline |-> "matches"]

Wrapper == [role |-> "", target |-> "pinned"]

\* One section hides another in a check of the whole, or is read together with
\* another; the last two hold for corrections only, and for neither.
BadDocuments ==
    {[GoodDocument EXCEPT !.malformed = {"project.name"}, !.authors = "malformed"],
     [GoodDocument EXCEPT !.maintainers = "malformed", !.sources = {"background"}],
     [GoodDocument EXCEPT !.sources = {"original", "prior"},
                          !.repository = [role |-> "thin-wrapper", target |-> "absent"],
                          !.related = "malformed"],
     [GoodDocument EXCEPT !.repository = [role |-> "substantive-development",
                                          target |-> "pinned"]],
     [GoodDocument EXCEPT !.authors = "identified", !.sources = {"original"}],
     [GoodDocument EXCEPT !.related = "malformed", !.sources = {}]}

\* The request and what ends preparation in order.
Refused ==
    {[Good EXCEPT !.request.options = "invalid"],
     [Good EXCEPT !.request = [Correction EXCEPT !.target = "another"]],
     [Good EXCEPT !.request.relationship = "palomar-maintainer"],
     [Good EXCEPT !.checkout = "submodule"], [Good EXCEPT !.checkout = "stalled"],
     [Good EXCEPT !.project = "flawed"], [Good EXCEPT !.project = "unforeseen"]}

\* Outages beside something and beside as much as the report holds; the iD that
\* is gone comes before the one that cannot be checked.
Crowded ==
    {[Good EXCEPT !.sources = kinds, !.answers = answers, !.toolchain = toolchain] :
        kinds \in {<<"long", "fine", "fine">>, <<"long-headless", "long-headless", "symlink">>},
        answers \in {<<"gone", "http-error">>, <<"unreachable">>},
        toolchain \in {"released", "lookup-failed"}}

Documented ==
    {[Good EXCEPT !.document = doc] : doc \in BadDocuments}

Single ==
    {[Good EXCEPT !.file = "malformed"],
     [Good EXCEPT !.file = "unforeseen", !.licence = "differs"],
     [Good EXCEPT !.licence = "detector-failed", !.configuration = "names"],
     [Good EXCEPT !.licence = "ambiguous"],
     [Good EXCEPT !.toolchain = "unsupported", !.sources = <<"fine", "fine", "undecodable">>],
     [Good EXCEPT !.toolchain = "stalled", !.configuration = "shape"],
     [Good EXCEPT !.document.repository = Wrapper, !.substantive = "flawed"],
     [Good EXCEPT !.document.repository = Wrapper, !.substantive = "stalled"]}

Corrected ==
    {[Good EXCEPT !.request = Correction, !.sources = <<"long", "headless", "fine">>],
     [Good EXCEPT !.request = Correction, !.baseline = "differs"],
     [Good EXCEPT !.request = Correction, !.substantive = "flawed",
                  !.document = [GoodDocument EXCEPT !.authors = "identified",
                                                    !.repository = Wrapper]],
     [Good EXCEPT !.request = [Correction EXCEPT !.target = "another"]],
     Good}

\* A preflight and a full verification prepare a submission in the same way.
AllSubjects ==
    [m \in {"full", "preflight", "correction"} |->
       CASE m = "full"       -> {Good, [Good EXCEPT !.answers = <<"unreachable">>],
                                   [Good EXCEPT !.checkout = "stalled"]}
         [] m = "preflight"  -> {Good} \cup Refused \cup Crowded \cup Documented \cup Single
         [] m = "correction" -> Corrected]

GoodSubject == [m \in {"full"} |-> {Good}]

\* A source whose defects fill the report, while the ORCID Registry is away.
CrowdedOutage ==
    [m \in {"preflight"} |-> {s \in Crowded : s.answers = <<"unreachable">>}]
=============================================================================

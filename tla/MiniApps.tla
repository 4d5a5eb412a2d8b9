------------------------------- MODULE MiniApps -------------------------------
(***************************************************************************)
(* The registry of mini apps, as the start checks it, and the shell        *)
(* /miniapps/:id answers: the default, under the registry's fields, under  *)
(* the fields of the manifest the mini app serves from its own origin.     *)
(*                                                                         *)
(* An entry of the index is [id, order, hidden, unknown, homeLogo,         *)
(* shellLogo], a logo None or [kind, usable]; a detail is [id, startUrl,   *)
(* shell, links], an address [http, origin, page], page being whether it   *)
(* names a page by its path, without a fragment.  A shell is a function    *)
(* from field names to values, or no record at all.                        *)
(***************************************************************************)
EXTENDS Integers, FiniteSets, Functions, SequencesExt, Sift

CONSTANTS None,          \* undefined
          Broken,        \* a value of another form
          FirstParty     \* FIRST_PARTY_MINIAPP_ORIGINS

WebviewOrigin == "webview"

-----------------------------------------------------------------------------
(* Shells *)

Allowed == [bar |-> {"top", "bottom", "none"}, header |-> {"opaque", "overlay"},
            statusBar |-> {"dark", "light"},
            background |-> {"#FFFFFF", "#ABCDEF", "#abcdef"}]
ToUpperCase(value) == IF value = "#abcdef" THEN "#ABCDEF" ELSE value

DefaultShell == [bar |-> "bottom", header |-> "opaque", statusBar |-> "dark",
                 background |-> "#FFFFFF"]

\* parseShellFields: the valid fields and nothing else; a value that is no record
\* has none.
ShellFieldsAsSent(value) == IF value = Broken THEN <<>> ELSE value   \* wrong: untested
ParseShellFields(value) ==
    IF value = Broken THEN <<>>
    ELSE [f \in {g \in DOMAIN value \cap DOMAIN Allowed : value[g] \in Allowed[g]} |->
            ToUpperCase(value[f])]

\* mergeShell
MergeShell(base, over) ==
    [f \in DOMAIN base \cup DOMAIN over |-> IF f \in DOMAIN over THEN over[f] ELSE base[f]]

\* assertValidShell
ValidShell(shell) ==
    /\ shell # Broken
    /\ DOMAIN shell \subseteq DOMAIN Allowed
    /\ \A f \in DOMAIN shell : shell[f] \in Allowed[f]

-----------------------------------------------------------------------------
(* The registry *)

\* assertValidLogo: a path, an object of the media bucket or one emoji.
ValidLogo(logo) ==
    logo # None => logo.kind \in {"remote", "media", "emoji"} /\ logo.usable

ValidEntry(entry) ==
    /\ entry.id # Broken
    /\ ~entry.unknown
    /\ entry.hidden \in BOOLEAN \cup {None}
    /\ entry.homeLogo # None \/ entry.shellLogo # None
    /\ ValidLogo(entry.homeLogo) /\ ValidLogo(entry.shellLogo)

ValidDetail(id, detail) ==
    /\ detail.id = id
    /\ detail.startUrl.http
    /\ detail.startUrl.origin = WebviewOrigin => detail.startUrl.page
    /\ detail.shell # None => ValidShell(detail.shell)
    /\ \A url \in ToSet(detail.links) : url.http

\* The loader reads one detail for each entry of the index, by its id.
Ids(index) == {entry.id : entry \in ToSet(index)}
Details(index, files) == Restrict(files, Ids(index))

\* assertValidRegistry
ValidRegistry(index, files) ==
    /\ \A i, j \in DOMAIN index : index[i].id = index[j].id => i = j
    /\ Ids(index) \subseteq DOMAIN files
    /\ \A entry \in ToSet(index) :
          ValidEntry(entry) /\ ValidDetail(entry.id, files[entry.id])

\* firstPartyOrigins: each has one owner, or the start fails.
Owners(details, origin) ==
    {id \in DOMAIN details : details[id].startUrl.origin = origin}
SomeOwner(details) == \A origin \in FirstParty : Owners(details, origin) # {}
OneOwner(details) == \A origin \in FirstParty : Cardinality(Owners(details, origin)) = 1

Starts(index, files) == ValidRegistry(index, files) /\ OneOwner(Details(index, files))

\* resolveLogo: both images become an absolute address.
WireLogo(logo) == IF logo.kind = "emoji" THEN "emoji" ELSE "uri"
Or(a, b) == IF a # None THEN a ELSE b
List(index) ==
    LET sorted == SortedByNumber(index, [i \in DOMAIN index |-> index[i].order])
    IN [i \in DOMAIN sorted |->
          [id |-> sorted[i].id, order |-> sorted[i].order,
           homeLogo |-> WireLogo(Or(sorted[i].homeLogo, sorted[i].shellLogo)),
           shellLogo |-> WireLogo(Or(sorted[i].shellLogo, sorted[i].homeLogo))]]

\* miniapps.origins of /app/config
Origins(details) ==
    [origin \in FirstParty |-> CHOOSE id \in Owners(details, origin) : TRUE]

\* The two files hold a list and a detail each, and null is no detail.
Shells == [DOMAIN Allowed -> UNION {Allowed[f] : f \in DOMAIN Allowed}]
IsRegistry(index, files) ==
    /\ index \in Seq(ToSet(index))
    /\ \A entry \in ToSet(index) : entry.order \in Int
    /\ None \notin [id : Ids(index), startUrl : {files[id].startUrl : id \in DOMAIN files},
                    shell : Shells]

-----------------------------------------------------------------------------
(* Manifests *)

\* fetchManifestShellFields: a response is [answer, json], json being the shell of
\* the body, Broken where it has none.  Whatever else comes back is an error.
Answer == {"ok", "timeout", "redirect", "notOk", "tooLong", "noJson"}
FetchFails(res) == res.answer \in {"timeout", "redirect", "notOk", "tooLong", "noJson"}
FetchManifest(res) == IF FetchFails(res) THEN None ELSE ParseShellFields(res.json)

\* The loader keeps the last one that loaded, for good: of the responses there
\* were, it holds the newest that was no failure.
Held(responses) ==
    LET loaded == Sift(responses, LAMBDA res : ~FetchFails(res))
    IN IF loaded = <<>> THEN None ELSE FetchManifest(Last(loaded))

\* getShellFields
ShellFields(detail, responses) ==
    IF detail.startUrl.origin \notin FirstParty \/ Held(responses) = None THEN <<>>
    ELSE Held(responses)

\* getDetail: an unknown id is a 404.
RegistryShell(detail) ==
    MergeShell(DefaultShell,
               IF detail.shell = None THEN <<>> ELSE ParseShellFields(detail.shell))
GetDetail(details, id, responses) ==
    IF id \notin DOMAIN details THEN None
    ELSE [id |-> id, startUrl |-> details[id].startUrl,
          shell |-> MergeShell(RegistryShell(details[id]),
                               ShellFields(details[id], responses))]

-----------------------------------------------------------------------------
(* Properties *)

\* Once the server starts, every mini app it lists opens: in a shell that is
\* complete and that the app can draw, whatever manifests were fetched or failed;
\* in the registry's own shell unless it is first-party and its manifest once
\* loaded.  A page on a first-party origin opens in the mini app that starts there.
MiniAppsOpen(index, files, responses) ==
    LET details == Details(index, files)
        answer(id) == GetDetail(details, id, responses)
    IN Starts(index, files) =>
        /\ \A entry \in ToSet(List(index)) :
              LET shell == answer(entry.id).shell
              IN /\ answer(entry.id) # None
                 /\ DOMAIN shell = DOMAIN Allowed
                 /\ \A f \in DOMAIN shell : shell[f] \in Allowed[f] \ {"#abcdef"}
                 /\ \/ shell = RegistryShell(details[entry.id])
                    \/ /\ entry.id \in Range(Origins(details))
                       /\ \E i \in DOMAIN responses : responses[i].answer = "ok"
        /\ \A origin \in FirstParty :
              answer(Origins(details)[origin]).startUrl.origin = origin
        /\ \A i, j \in DOMAIN index : i < j => List(index)[i].order <= List(index)[j].order
=============================================================================

----------------------------- MODULE Transport ------------------------------
(***************************************************************************)
(* The three transports of a request: the query string of HTTP             *)
(* (src/adapters/http/http.go), the parameters of JSON-RPC                 *)
(* (src/adapters/jsonrpc/jsonrpc.go) and a parsed JSON:API query           *)
(* (src/adapters/jsonapi/jsonapi.go).  A client means a request, writes it *)
(* for one of them and perhaps spoils it; the adapter parses what arrives. *)
(*                                                                         *)
(* An optional component is <<>> when absent and <<v>> when present.  A    *)
(* list's text is the sequence of what stands between its commas, so the   *)
(* empty text is <<Empty>>.  A filter, a page and a JSON member's value    *)
(* keep which members were given: <<>> is a null or an omitted one.        *)
(***************************************************************************)
EXTENDS Integers, Sequences, FiniteSets, SequencesExt

CONSTANTS
    Intents,      \* the requests clients mean
    MaxFaults     \* bound on how often one message is spoiled

\* What a request is made of: optional values, lists, a page of five members.
IsOptional(o) == o = <<>> \/ o = <<o[1]>>
IsOptionalList(o) == IsOptional(o) /\ \A i \in DOMAIN o : o[i] \in Seq(Range(o[i]))

ASSUME TransportAssumption ==
    /\ MaxFaults \in Nat
    /\ \A r \in Intents :
          /\ IsOptional(r.revision) /\ IsOptional(r.filter)
          /\ IsOptionalList(r.fields) /\ IsOptionalList(r.includes) /\ IsOptionalList(r.sorts)
          /\ DOMAIN r.page = {"mode", "size", "after", "before", "offset"}

VARIABLES
    via,          \* "http", "rpc" or "jsonapi"
    intent,       \* what the client meant
    sent,         \* what it sends
    faults,       \* how the message was spoiled
    got           \* <<>> until parsed, then <<[error, request]>>

tvars == <<via, intent, sent, faults, got>>

\* Go's empty string: also no error, no resource.
Blank == ""

ZeroPage   == [mode |-> Blank, size |-> 0, after |-> Blank, before |-> Blank, offset |-> 0]
ZeroFilter == [predicate |-> Blank, logic |-> Blank]
Unset(record) == [m \in DOMAIN record |-> <<>>]

\* encoding/json into a struct: members that are given replace those there.
Merged(record, given) ==
    [m \in DOMAIN record |-> IF given[m] = <<>> THEN record[m] ELSE given[m][1]]

ZeroRequest == [revision |-> <<>>, fields |-> <<>>, includes |-> <<>>,
                filter |-> <<>>, sorts |-> <<>>, page |-> ZeroPage]

Result(error, request) ==
    [error |-> error, request |-> IF error = Blank THEN request ELSE ZeroRequest]

-----------------------------------------------------------------------------
\* HTTP.  A parameter is [name, text, utf8]; a message [fits, params], where
\* fits sums up the byte limit, its encoding and url.ParseQuery.

ListItem(dashes, name) == [dashes |-> dashes, name |-> name]
Empty == ListItem(0, Blank)

\* Only the page's parameters are numbers; <<>> is one that Atoi refuses.
Lists   == {"fields", "include", "sort"}
Numbers == {"page[size]", "page[offset]"}
Words   == {"schema_revision", "page[mode]", "page[after]", "page[before]"}
supported == Lists \cup Numbers \cup Words \cup {"filter"}

EmptyIsAbsent(text) == IF Contains(text, Empty) THEN <<>> ELSE <<text>>  \* mutant
commaList(text) ==
    IF text = <<Empty>> THEN <<<<>>>>
    ELSE IF Contains(text, Empty) THEN <<>> ELSE <<text>>

\* What every transport has a text for: in a comma-separated list no item is
\* empty, and a name that is sorted ascending begins with no dash.
IsSortTerm(t) ==
    /\ t = [name |-> ListItem(t.name.dashes, t.name.name), direction |-> t.direction]
    /\ t.name.dashes \in Nat /\ t.name # Empty
    /\ t.direction = "desc" \/ (t.direction = "asc" /\ t.name.dashes = 0)

ASSUME SayableAssumption ==
    \A r \in Intents :
        /\ r = [revision |-> r.revision, fields |-> r.fields, includes |-> r.includes,
                filter |-> r.filter, sorts |-> r.sorts, page |-> r.page]
        /\ r.page = [m \in DOMAIN r.page |-> r.page[m]]
        /\ \A i \in DOMAIN r.filter :
              r.filter[i] = [m \in DOMAIN ZeroFilter |-> r.filter[i][m]]
        /\ \A i \in DOMAIN r.fields : ~Contains(r.fields[i], Empty)
        /\ \A i \in DOMAIN r.includes : ~Contains(r.includes[i], Empty)
        /\ \A i \in DOMAIN r.sorts : \A j \in DOMAIN r.sorts[i] : IsSortTerm(r.sorts[i][j])

SortTerm(item) ==
    IF item.dashes = 0 THEN [name |-> item, direction |-> "asc"]
    ELSE [name |-> [item EXCEPT !.dashes = @ - 1], direction |-> "desc"]

sortList(text) ==
    LET list == commaList(text) IN
    IF list = <<>> THEN <<>>
    ELSE LET terms == [i \in DOMAIN list[1] |-> SortTerm(list[1][i])] IN
         IF \E i \in DOMAIN terms : terms[i].name = Empty THEN <<>> ELSE <<terms>>

\* url.ParseQuery gathers the entries of a name.
EntriesOf(params, name) == {i \in DOMAIN params : params[i].name = name}

\* The strict decoding of a filter: <<>> fails, and null leaves it zero.
HttpFilter(text) ==
    IF text = <<>> THEN <<>>
    ELSE <<IF text[1] = <<>> THEN ZeroFilter ELSE Merged(ZeroFilter, text[1][1])>>

\* What each reads its parameter's text as.
Reads(name, text) ==
    CASE name \in {"fields", "include"} -> commaList(text)
      [] name = "sort"   -> sortList(text)
      [] name = "filter" -> HttpFilter(text)
      [] OTHER           -> text

\* A parameter that is there but says nothing readable fails the parse.
One(params, name) == EntriesOf(params, name) # {}
TextOf(params, name) == params[Min(EntriesOf(params, name))].text
Read(params, name) == IF One(params, name) THEN Reads(name, TextOf(params, name)) ELSE <<>>
Unreadable(params, name) == One(params, name) /\ Read(params, name) = <<>>

parsePage(params) ==
    Merged(ZeroPage, [mode   |-> Read(params, "page[mode]"),
                      size   |-> Read(params, "page[size]"),
                      after  |-> Read(params, "page[after]"),
                      before |-> Read(params, "page[before]"),
                      offset |-> Read(params, "page[offset]")])

AnyName(params) == \A i \in DOMAIN params :                     \* mutant
    params[i].utf8 /\ (params[i].name \in supported => EntriesOf(params, params[i].name) = {i})
FirstOfMany(params) == \A i \in DOMAIN params :                 \* mutant
    params[i].utf8 /\ params[i].name \in supported
Shaped(params) == \A i \in DOMAIN params :
    /\ params[i].name \in supported /\ params[i].utf8
    /\ EntriesOf(params, params[i].name) = {i}

HttpParse(query) ==
    LET p == query.params
        readable == \A name \in supported : ~Unreadable(p, name) IN
    Result(IF query.fits /\ Shaped(p) /\ readable THEN Blank ELSE "invalid",
           [revision |-> Read(p, "schema_revision"),
            fields   |-> Read(p, "fields"),
            includes |-> Read(p, "include"),
            filter   |-> Read(p, "filter"),
            sorts    |-> Read(p, "sort"),
            page     |-> parsePage(p)])

-----------------------------------------------------------------------------
\* JSON-RPC.  A member is [name, alias, value]: alias when it is spelled in
\* another case, value <<>> when it is null.  A message is [fits, members].

NoParams == [m \in {"schema_revision", "fields", "includes", "filter", "sorts", "page"}
                |-> <<>>]

\* One member after another: a null makes the component nil again, a list
\* replaces the one before, an object is decoded into the one there.
MemberInto(params, member) ==
    LET prior == params[member.name]
        Into(zero) == Merged(IF prior = <<>> THEN zero ELSE prior[1], member.value[1]) IN
    [params EXCEPT ![member.name] =
        IF member.value = <<>> THEN <<>>
        ELSE CASE member.name = "page"   -> <<Into(ZeroPage)>>
               [] member.name = "filter" -> <<Into(ZeroFilter)>>
               [] OTHER                  -> member.value]

Spelling(member) == [name |-> member.name, alias |-> member.alias]

StrictParams(message) ==
    /\ message.fits
    /\ \A i \in DOMAIN message.members :
          /\ message.members[i].name \in DOMAIN NoParams
          /\ \A j \in DOMAIN message.members :
                Spelling(message.members[i]) = Spelling(message.members[j]) => i = j

RpcRequest(params) ==
    [revision |-> params["schema_revision"], fields |-> params["fields"],
     includes |-> params["includes"], filter |-> params["filter"],
     sorts    |-> params["sorts"],
     page     |-> IF params["page"] = <<>> THEN ZeroPage ELSE params["page"][1]]

RpcParse(message) ==
    IF ~StrictParams(message) THEN Result("invalid", ZeroRequest)
    ELSE Result(Blank, RpcRequest(FoldLeft(MemberInto, NoParams, message.members)))

\* What the published descriptor offers.
OpenRPCContentDescriptor ==
    {"schema_revision", "fields", "includes", "filter", "sorts", "page"}

-----------------------------------------------------------------------------
\* JSON:API.  A query is [fields, include, sort, filter, page]: the fieldsets
\* [resource, list] as a set, a family as <<>> or <<what it says>>.  With it
\* comes the configuration: a decoder is absent, fails, returns nil, or works.

\* An external decoder: of a family that it understands, its meaning.
FamilyDecoded(decoder, family) == IF decoder = "works" THEN family ELSE <<>>

Refusal(decoder, family) ==
    IF family = <<>> THEN Blank
    ELSE IF decoder = "absent" THEN "unsupported"
    ELSE IF FamilyDecoded(decoder, family) = <<>> THEN "invalid" ELSE Blank

Selected(query, config) == {f \in query.fields : f.resource = config.resource}

FromQuery(query, config) ==
    LET filter == FamilyDecoded(config.filter, query.filter)
        page   == FamilyDecoded(config.page, query.page)
        fields == Selected(query, config)
        terms  == [i \in DOMAIN query.sort |->
                     [j \in DOMAIN query.sort[i] |->
                        [name |-> query.sort[i][j].name,
                         direction |-> IF query.sort[i][j].descending THEN "desc" ELSE "asc"]]] IN
    Result(IF config.resource = Blank THEN "invalid"
           ELSE IF Refusal(config.filter, query.filter) # Blank
                THEN Refusal(config.filter, query.filter)
                ELSE Refusal(config.page, query.page),
           [ZeroRequest EXCEPT !.fields = IF fields = {} THEN <<>>
                                          ELSE <<(CHOOSE f \in fields : TRUE).list>>,
                               !.includes = query.include, !.sorts = terms, !.filter = filter,
                               !.page = IF page = <<>> THEN ZeroPage ELSE page[1]])

-----------------------------------------------------------------------------
\* How a client writes what it means (src/docs/http.md, openrpc.md, jsonapi.md).

ListText(list) == IF list = <<>> THEN <<Empty>> ELSE list
SortText(terms) == ListText([i \in DOMAIN terms |-> [terms[i].name EXCEPT
                      !.dashes = @ + IF terms[i].direction = "desc" THEN 1 ELSE 0]])
Given(record, zero) ==
    [m \in DOMAIN record |-> IF record[m] = zero[m] THEN <<>> ELSE <<record[m]>>]

Param(name, text) == [name |-> name, text |-> text, utf8 |-> TRUE]
\* A parameter for a component that is there, none for one that is not.
Written(optional, name, Writes(_)) ==
    [i \in DOMAIN optional |-> Param(name, Writes(optional[i]))]

HttpText(r) ==
    LET page == Given(r.page, ZeroPage) IN
    [fits |-> TRUE, params |->
        Written(r.revision, "schema_revision", LAMBDA v : <<v>>) \o
        Written(r.fields, "fields", ListText) \o Written(r.includes, "include", ListText) \o
        Written(r.filter, "filter", LAMBDA f : <<<<Given(f, ZeroFilter)>>>>) \o
        Written(r.sorts, "sort", SortText) \o
        Written(page.mode, "page[mode]", LAMBDA v : <<v>>) \o
        Written(page.size, "page[size]", LAMBDA v : <<v>>) \o
        Written(page.after, "page[after]", LAMBDA v : <<v>>) \o
        Written(page.before, "page[before]", LAMBDA v : <<v>>) \o
        Written(page.offset, "page[offset]", LAMBDA v : <<v>>)]

RpcText(r) ==
    LET M(optional, name, Writes(_)) ==
            [i \in DOMAIN optional |->
               [name |-> name, alias |-> FALSE, value |-> <<Writes(optional[i])>>]]
        page == IF r.page = ZeroPage THEN <<>> ELSE <<r.page>> IN
    [fits |-> TRUE, members |->
        M(r.revision, "schema_revision", LAMBDA v : v) \o M(r.fields, "fields", LAMBDA v : v) \o
        M(r.includes, "includes", LAMBDA v : v) \o M(r.sorts, "sorts", LAMBDA v : v) \o
        M(r.filter, "filter", LAMBDA f : Given(f, ZeroFilter)) \o
        M(page, "page", LAMBDA p : Given(p, ZeroPage))]

Terms(terms) == [i \in DOMAIN terms |->
    [name |-> terms[i].name, descending |-> terms[i].direction = "desc"]]

JsonApiQuery(r) ==
    [query |-> [fields  |-> {[resource |-> "orders", list |-> r.fields[i]] : i \in DOMAIN r.fields},
                include |-> r.includes,
                sort    |-> [i \in DOMAIN r.sorts |-> Terms(r.sorts[i])],
                filter  |-> r.filter,
                page    |-> IF r.page = ZeroPage THEN <<>> ELSE <<r.page>>],
     config |-> [resource |-> "orders", filter |-> "works", page |-> "works"]]

TransportInit ==
    /\ via \in {"http", "rpc", "jsonapi"} /\ intent \in Intents
    /\ via = "jsonapi" => intent.revision = <<>>
    /\ sent = CASE via = "http" -> HttpText(intent)
                [] via = "rpc"  -> RpcText(intent)
                [] via = "jsonapi" -> JsonApiQuery(intent)
    /\ faults = {} /\ got = <<>>

-----------------------------------------------------------------------------
\* Spoilt messages.

Spoil(fault, spoilt) ==
    /\ got = <<>> /\ Cardinality(faults) < MaxFaults /\ fault \notin faults
    /\ sent' = spoilt /\ faults' = faults \cup {fault}
    /\ UNCHANGED <<via, intent, got>>

SpoilHttp ==
    /\ via = "http"
    /\ \/ Spoil("unreadable", [sent EXCEPT !.fits = FALSE])
       \/ Spoil("unknown", [sent EXCEPT !.params = Append(@, Param("sql", <<"drop">>))])
       \/ \E i \in DOMAIN sent.params :
            LET p == sent.params[i] IN
            \/ Spoil("repeated", [sent EXCEPT !.params = <<p>> \o @])
            \/ Spoil("not-UTF-8", [sent EXCEPT !.params[i].utf8 = FALSE])
            \/ /\ p.name \in Lists
               /\ Spoil("empty-item", [sent EXCEPT !.params[i].text = @ \o <<Empty>>])
            \/ /\ p.name = "sort"
               /\ Spoil("bare-dash", [sent EXCEPT !.params[i].text = <<ListItem(1, Blank)>> \o @])
            \/ /\ p.name \in Numbers \cup {"filter"}
               /\ Spoil("malformed", [sent EXCEPT !.params[i].text = <<>>])
            \/ /\ p.name = "filter"
               /\ Spoil("null", [sent EXCEPT !.params[i].text = <<<<>>>>])

SpoilRpc ==
    /\ via = "rpc"
    /\ \/ Spoil("unreadable", [sent EXCEPT !.fits = FALSE])
       \/ Spoil("all-null", [sent EXCEPT !.members = <<>>])
       \/ Spoil("unknown", [sent EXCEPT !.members =
                              Append(@, [name |-> "sql", alias |-> FALSE, value |-> <<>>])])
       \/ \E i \in DOMAIN sent.members :
            LET m == sent.members[i] IN
            \/ Spoil("repeated", [sent EXCEPT !.members = Append(@, m)])
            \/ Spoil("null", [sent EXCEPT !.members[i].value = <<>>])
            \/ /\ m.name \in DOMAIN NoParams /\ ~m.alias
               /\ \/ Spoil("alias-null", [sent EXCEPT !.members =
                              Append(@, [m EXCEPT !.alias = TRUE, !.value = <<>>])])
                  \/ /\ m.name = "page"
                     /\ Spoil("alias-page", [sent EXCEPT !.members =
                              Append(@, [m EXCEPT !.alias = TRUE,
                                         !.value = <<[Unset(ZeroPage) EXCEPT !.size = <<7>>]>>])])

SpoilJsonApi ==
    /\ via = "jsonapi"
    /\ \/ Spoil("no-resource", [sent EXCEPT !.config.resource = Blank])
       \/ Spoil("other-fieldset", [sent EXCEPT !.query.fields =
                                     @ \cup {[resource |-> "lines", list |-> <<>>]}])
       \/ \E decoder \in {"absent", "fails", "nil"} :
            \/ Spoil("filter-decoder", [sent EXCEPT !.config.filter = decoder])
            \/ /\ decoder # "nil"
               /\ Spoil("page-decoder", [sent EXCEPT !.config.page = decoder])

Parse ==
    /\ got = <<>>
    /\ got' = <<CASE via = "http" -> HttpParse(sent)
                  [] via = "rpc"  -> RpcParse(sent)
                  [] via = "jsonapi" -> FromQuery(sent.query, sent.config)>>
    /\ UNCHANGED <<via, intent, sent, faults>>

TransportNext == SpoilHttp \/ SpoilRpc \/ SpoilJsonApi \/ Parse

TransportSpec == TransportInit /\ [][TransportNext]_tvars

-----------------------------------------------------------------------------
\* The same request arrives over every transport: absent stays absent, empty
\* stays empty, and a sort keeps its name and direction (http.go:40-75,
\* jsonrpc.go:49-67, jsonapi.go:59-97; src/docs/http.md:15-17).
SameRequestEveryWay ==
    faults \subseteq {"other-fieldset"} =>
        \A i \in DOMAIN got : got[i].error = Blank /\ got[i].request = intent

\* What the documents say is rejected is rejected, whatever else the message
\* says, and nothing of a rejected message is handed out (src/docs/http.md:19-21,
\* src/docs/openrpc.md:8-9, src/docs/jsonapi.md:12-17).
Rejected ==
    LET refused == {"unreadable", "unknown", "repeated", "not-UTF-8", "empty-item",
                    "bare-dash", "no-resource"} IN
    \A i \in DOMAIN got :
        /\ got[i].error # Blank => got[i].request = ZeroRequest
        /\ faults \cap (refused \ IF "all-null" \in faults THEN {"unknown", "repeated"} ELSE {})
              # {} => got[i].error # Blank
        /\ via = "http" /\ "malformed" \in faults /\ "null" \notin faults => got[i].error # Blank
        /\ via = "jsonapi" /\ intent.filter # <<>> /\ "filter-decoder" \in faults =>
              got[i].error = IF sent.config.filter = "absent" /\ sent.config.resource # Blank
                             THEN "unsupported" ELSE "invalid"
        /\ via = "jsonapi" /\ intent.page # ZeroPage /\ "page-decoder" \in faults => got[i].error # Blank

Named(parts, name) == SelectSeq(parts, LAMBDA p : p.name = name)

LeavesAbsent(name, r) ==
    CASE name = "page" -> r.page = ZeroPage
      [] name = "schema_revision" -> r.revision = <<>>
      [] OTHER -> r[name] = <<>>

\* Nothing of an accepted message is left unread: written again, its request is
\* the message.  Of a spoiled JSON-RPC message that is accepted it holds that a
\* member which is null, also under an alias after one that was not, leaves its
\* component absent (openrpc.md:11-14); JSON:API reads the fieldset it is
\* configured for (http.go:35-39, jsonrpc.go:40-67, 82-94, jsonapi.go:59-94).
NothingIgnored ==
    \A i \in DOMAIN got : got[i].error = Blank =>
        CASE via = "http" ->
               /\ \A j \in DOMAIN sent.params : sent.params[j].name \in supported
               /\ "null" \notin faults => \A n \in supported :
                     Named(sent.params, n) = Named(HttpText(got[i].request).params, n)
          [] via = "rpc" ->
               /\ \A j \in DOMAIN sent.members :
                     sent.members[j].name \in OpenRPCContentDescriptor
               /\ \A n \in DOMAIN NoParams : LET given == EntriesOf(sent.members, n) IN
                     given = {} \/ sent.members[Max(given)].value = <<>> =>
                         LeavesAbsent(n, got[i].request)
               /\ faults = {} => \A n \in OpenRPCContentDescriptor :
                     Named(sent.members, n) = Named(RpcText(got[i].request).members, n)
          [] via = "jsonapi" ->
               /\ sent.query.filter = got[i].request.filter
               /\ sent.query.page # <<>> => sent.query.page = <<got[i].request.page>>
               /\ \A f \in sent.query.fields : f.resource = sent.config.resource =>
                     got[i].request.fields = <<f.list>>
=============================================================================

-------------------------------- MODULE Names --------------------------------
(***************************************************************************)
(* The Paperless clients' knowledge of named entities, shown for tags: ids *)
(* looked up by name, created when missing, and lists of names, each kept  *)
(* in a cache for a while.  The worker's client is shared by its loops,    *)
(* the API's gateway by the requests it serves.  The two meet only in      *)
(* Paperless, so a behaviour is one of either process, and the other one,  *)
(* like a user, creates tags it has not heard of.                          *)
(*                                                                         *)
(* An entry too old to be used and no entry are the same, so a cache may   *)
(* expire at any time.                                                     *)
(***************************************************************************)
EXTENDS Integers, FiniteSets, SequencesExt

CONSTANTS
    Names,
    Lower,       \* Lower[n]: n without regard to case
    Order,       \* Order[n]: where Paperless has n in its lists
    Callers,     \* loops of the worker, or requests the API serves
    MaxId,       \* bound: tags ever created
    PageSize,    \* tags on a page of getEntityNameMap
    ApiPage,     \* tags on the one page listNamed reads
    Null

VARIABLES
    side,        \* "client" in the worker or "gateway" in the API
    entity,      \* Paperless: name of each tag, Null when deleted
    tagIdCache,  \* client: id of each name, NoTag, or Null
    nameMap,     \* client: entityNameMapCache
    tagsCache,   \* gateway
    call,        \* what each caller does
    answer,      \* what a caller was just given
    owed         \* history: tags the process created that its lists must have

vars == <<side, entity, tagIdCache, nameMap, tagsCache, call, answer, owed>>
caches == <<side, tagIdCache, nameMap, tagsCache>>
NoTag == 0

Live == {i \in DOMAIN entity : entity[i] # Null}

Idle == [step |-> "idle", op |-> "none", name |-> Null, ids |-> {}, id |-> NoTag, list |-> <<>>,
         page |-> 1]

Init ==
    /\ side \in {"client", "gateway"}
    /\ \E k \in 0..MaxId : entity \in {f \in [1..k -> Names] : IsInjective(f)}
    /\ tagIdCache = [n \in Names |-> Null]
    /\ nameMap = Null
    /\ tagsCache = Null
    /\ call = [c \in Callers |-> Idle]
    /\ answer = Idle
    /\ owed = {}

At(c, step) == call[c].step = step
To(c, step) == call' = [call EXCEPT ![c].step = step] /\ answer' = Idle
Call(c, step, op, name, ids) ==
    /\ call' = [call EXCEPT ![c] = [Idle EXCEPT !.step = step, !.op = op, !.name = name, !.ids = ids]]
    /\ answer' = Idle
Answer(c, op, name, ids, id, list) ==
    /\ call' = [call EXCEPT ![c] = Idle]
    /\ answer' = [step |-> "answered", op |-> op, name |-> name, ids |-> ids, id |-> id, list |-> list,
                  page |-> 1]
Return(c, id, list) == Answer(c, call[c].op, call[c].name, call[c].ids, id, list)

\* Mutant: the match without regard to case is taken.
foundLoosely(name) ==
    LET hits == {i \in Live : Lower[entity[i]] = Lower[name]}
    IN IF hits = {} THEN NoTag ELSE CHOOSE i \in hits : TRUE

\* Paperless matches without regard to case; the client compares again.
found(name) ==
    LET hits == {i \in Live : Lower[entity[i]] = Lower[name] /\ entity[i] = name}
    IN IF hits = {} THEN NoTag ELSE CHOOSE i \in hits : TRUE

Fetching == \E c \in Callers : call[c].step \in {"pages", "list", "store"}

-----------------------------------------------------------------------------
(* PaperlessClient, in the worker *)

\* getTagId, and ensureTag which creates what it does not find.
getTagId(c, op, n) ==
    /\ side = "client" /\ At(c, "idle")
    /\ CASE tagIdCache[n] = Null -> Call(c, "lookup", op, n, {})
         [] tagIdCache[n] = NoTag /\ op = "ensureTag" -> Call(c, "post", op, n, {})
         [] OTHER -> Answer(c, op, n, {}, tagIdCache[n], <<>>)
    /\ UNCHANGED <<entity, caches, owed>>

TagIdRead(c) ==
    /\ At(c, "lookup")
    /\ call' = [call EXCEPT ![c].step = "keep", ![c].id = found(call[c].name)]
    /\ answer' = Idle
    /\ UNCHANGED <<entity, caches, owed>>

\* A tag that does not exist is remembered, too.
TagIdKept(c) ==
    /\ At(c, "keep")
    /\ tagIdCache' = [tagIdCache EXCEPT ![call[c].name] = call[c].id]
    /\ IF call[c].id = NoTag /\ call[c].op = "ensureTag" THEN To(c, "post") ELSE Return(c, call[c].id, <<>>)
    /\ UNCHANGED <<side, entity, nameMap, tagsCache, owed>>

getOrCreateNamed(c, n) ==
    /\ side = "client" /\ At(c, "idle")
    /\ Call(c, "find", "getOrCreateNamed", n, {})
    /\ UNCHANGED <<entity, caches, owed>>

getEntityNameMap(c) ==
    /\ side = "client" /\ At(c, "idle")
    /\ IF nameMap = Null THEN Call(c, "pages", "names", Null, {}) ELSE Answer(c, "names", Null, {}, NoTag, nameMap)
    /\ UNCHANGED <<entity, caches, owed>>

\* Pages are places in the order of the names: a tag created meanwhile moves the later ones on.
Before(i) == {j \in Live : Order[entity[j]] < Order[entity[i]]}
OnPage(page) == {i \in Live : Cardinality(Before(i)) \in (page - 1) * PageSize..page * PageSize - 1}

\* Names of the tags ids; the known ones are not read again.
Listed(ids, known) == [i \in ids |-> IF i \in DOMAIN known THEN known[i] ELSE entity[i]]

\* It is the last page when Paperless names no next.  A page that is gone by now is refused.
ReadPage(c) ==
    /\ At(c, "pages")
    /\ LET page == call[c].page
           ids == call[c].ids \cup OnPage(page)
       IN /\ page = 1 \/ OnPage(page) # {}
          /\ call' = [call EXCEPT ![c].ids = ids, ![c].list = Listed(ids, call[c].list), ![c].page = page + 1,
                                  ![c].step = IF page * PageSize < Cardinality(Live) THEN "pages" ELSE "store"]
    /\ answer' = Idle
    /\ UNCHANGED <<entity, caches, owed>>

NamesKept(c) ==
    /\ At(c, "store") /\ side = "client"
    /\ nameMap' = call[c].list
    /\ Return(c, NoTag, call[c].list)
    /\ UNCHANGED <<side, entity, tagIdCache, tagsCache, owed>>

-----------------------------------------------------------------------------
(* PaperlessGateway, in the API *)

\* With the list in hand: ensureTag needs its name in it.
WithTags(c, op, n, ids, tags) ==
    IF op # "ensure" THEN Answer(c, op, n, ids, NoTag, tags)
    ELSE IF \E i \in DOMAIN tags : tags[i] = n
    THEN Answer(c, op, n, ids, CHOOSE i \in DOMAIN tags : tags[i] = n, <<>>)
    ELSE Call(c, "find", op, n, ids)

\* listTags; listTagsCovering(ids) refetches once when the list lacks one of ids.
listTags(c, op, n, ids) ==
    /\ side = "gateway" /\ At(c, "idle")
    /\ IF tagsCache # Null /\ (op = "covering" => ids \subseteq DOMAIN tagsCache)
       THEN WithTags(c, op, n, ids, tagsCache) /\ UNCHANGED tagsCache
       ELSE /\ Call(c, "list", IF op = "covering" /\ tagsCache # Null THEN "again" ELSE op, n, ids)
            /\ tagsCache' = Null
    /\ UNCHANGED <<side, entity, tagIdCache, nameMap, owed>>

\* listNamed: one page, whichever tags Paperless puts on it.
ReadList(c) ==
    /\ At(c, "list")
    /\ \E ids \in SUBSET Live :
        /\ Cardinality(ids) = IF Cardinality(Live) < ApiPage THEN Cardinality(Live) ELSE ApiPage
        /\ call' = [call EXCEPT ![c].list = Listed(ids, <<>>), ![c].step = "store"]
    /\ answer' = Idle
    /\ UNCHANGED <<entity, caches, owed>>

ListKept(c) ==
    /\ At(c, "store") /\ side = "gateway"
    /\ IF call[c].op = "covering" /\ ~(call[c].ids \subseteq DOMAIN call[c].list)
       THEN Call(c, "list", "again", Null, call[c].ids) /\ tagsCache' = Null
       ELSE /\ tagsCache' = call[c].list
            /\ WithTags(c, call[c].op, call[c].name, call[c].ids, call[c].list)
    /\ UNCHANGED <<side, entity, tagIdCache, nameMap, owed>>

-----------------------------------------------------------------------------
(* Looking a name up and creating it, on both sides *)

\* The gateway forgets its list, which lacks a tag that exists.
Find(c) ==
    /\ At(c, "find")
    /\ LET id == found(call[c].name) IN
       /\ IF id = NoTag THEN To(c, "post") ELSE Return(c, id, <<>>)
       /\ tagsCache' = IF id # NoTag /\ side = "gateway" THEN Null ELSE tagsCache
    /\ UNCHANGED <<side, entity, tagIdCache, nameMap, owed>>

\* Paperless keeps names unique.
Post(c) ==
    /\ At(c, "post")
    /\ IF \E i \in Live : entity[i] = call[c].name
       THEN To(c, "refused") /\ UNCHANGED entity
       ELSE /\ Len(entity) < MaxId
            /\ entity' = Append(entity, call[c].name)
            /\ call' = [call EXCEPT ![c].step = "created", ![c].id = Len(entity) + 1]
            /\ answer' = Idle
    /\ UNCHANGED <<caches, owed>>

\* Mutant: the lists are kept.
CreatedKeepsLists(c) ==
    /\ At(c, "created")
    /\ tagIdCache' = IF side = "client" THEN [tagIdCache EXCEPT ![call[c].name] = Null] ELSE tagIdCache
    /\ owed' = IF call[c].op # "ensureTag" /\ ~Fetching /\ call[c].id \in Live
               THEN owed \cup {call[c].id} ELSE owed
    /\ Return(c, call[c].id, <<>>)
    /\ UNCHANGED <<side, entity, nameMap, tagsCache>>

\* The caches that lack the new tag are dropped; the client's ensureTag keeps the list.
Created(c) ==
    /\ At(c, "created")
    /\ tagIdCache' = IF side = "client" THEN [tagIdCache EXCEPT ![call[c].name] = Null] ELSE tagIdCache
    /\ nameMap' = IF call[c].op = "getOrCreateNamed" THEN Null ELSE nameMap
    /\ tagsCache' = IF side = "gateway" THEN Null ELSE tagsCache
    /\ owed' = IF call[c].op # "ensureTag" /\ ~Fetching /\ call[c].id \in Live
               THEN owed \cup {call[c].id} ELSE owed
    /\ Return(c, call[c].id, <<>>)
    /\ UNCHANGED <<side, entity>>

\* Someone else created the tag: look again.  The client's ensureTag does not.
Raced(c) ==
    /\ At(c, "refused") /\ call[c].op # "ensureTag"
    /\ Return(c, found(call[c].name), <<>>)
    /\ tagsCache' = IF side = "gateway" /\ found(call[c].name) # NoTag THEN Null ELSE tagsCache
    /\ UNCHANGED <<side, entity, tagIdCache, nameMap, owed>>

\* A request fails, or is refused without a second look.
Fail(c) ==
    /\ ~At(c, "idle")
    /\ call' = [call EXCEPT ![c] = Idle]
    /\ answer' = Idle
    /\ UNCHANGED <<entity, caches, owed>>

-----------------------------------------------------------------------------
(* Around them *)

Expire ==
    /\ \/ \E n \in Names : tagIdCache' = [tagIdCache EXCEPT ![n] = Null] /\ UNCHANGED <<nameMap, tagsCache>>
       \/ nameMap' = Null /\ UNCHANGED <<tagIdCache, tagsCache>>
       \/ tagsCache' = Null /\ UNCHANGED <<tagIdCache, nameMap>>
    /\ UNCHANGED <<side, entity, call, owed>> /\ answer' = Idle

\* By the other process, or by a user.
OthersCreate(n) ==
    /\ Len(entity) < MaxId /\ \A i \in Live : entity[i] # n
    /\ entity' = Append(entity, n)
    /\ UNCHANGED <<caches, call, owed>> /\ answer' = Idle

TagDeleted ==
    /\ \E i \in Live : entity' = [entity EXCEPT ![i] = Null]
    /\ owed' = {}
    /\ UNCHANGED <<caches, call>> /\ answer' = Idle

Next ==
    \/ \E c \in Callers :
        \/ \E n \in Names : getOrCreateNamed(c, n) \/ \E op \in {"getTagId", "ensureTag"} : getTagId(c, op, n)
        \/ TagIdRead(c) \/ TagIdKept(c) \/ getEntityNameMap(c) \/ ReadPage(c) \/ NamesKept(c)
        \/ \E n \in Names : listTags(c, "ensure", n, {})
        \/ \E ids \in SUBSET Live : listTags(c, "covering", Null, ids)
        \/ ReadList(c) \/ ListKept(c)
        \/ Find(c) \/ Post(c) \/ Created(c) \/ Raced(c) \/ Fail(c)
    \/ Expire \/ TagDeleted \/ \E n \in Names : OthersCreate(n)

Spec == Init /\ [][Next]_vars

-----------------------------------------------------------------------------
TypeOK ==
    /\ entity \in Seq(Names \cup {Null})
    /\ \A n \in Names : tagIdCache[n] \in {Null, NoTag} \cup DOMAIN entity
    /\ nameMap = Null \/ DOMAIN nameMap \subseteq DOMAIN entity
    /\ tagsCache = Null \/ DOMAIN tagsCache \subseteq DOMAIN entity
    /\ \A c \in Callers : call[c].step \in {"idle", "lookup", "keep", "find", "post", "created",
                                            "refused", "pages", "list", "store"}
    /\ owed \subseteq Live

\* A tag's id is that of the tag with exactly that name, whoever created it and whenever it
\* was cached, or that of a tag deleted since (client.ts: getTagId, getOrCreateNamed;
\* paperless.gateway.ts: ensureTag, also for tags beyond the page listNamed reads).
IdIsOfTheName ==
    answer.id \in DOMAIN entity => entity[answer.id] \in {answer.name, Null}

\* Names are shown where they should be: a tag the same process created is in the next list
\* of names it reads, unless a list was being fetched when the creation was answered; and
\* listTagsCovering knows every tag it was asked for that still exists.  The gateway's lists
\* are held to this as long as one page holds every tag ever created.
CreatedIsVisible ==
    /\ answer.op = "names" => owed \subseteq DOMAIN answer.list
    /\ answer.op \in {"covering", "again"} /\ Len(entity) <= ApiPage
        => owed \cup (answer.ids \cap Live) \subseteq DOMAIN answer.list

=============================================================================

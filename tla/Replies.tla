------------------------------ MODULE Replies ------------------------------
(***************************************************************************)
(* What the servers tell a client that asks, byte for byte, while the      *)
(* characters change: the server list over HTTP (bootstrap.py), the list   *)
(* of its characters (through luaproto.py), then the boards, the attire    *)
(* page, the shop and the inventory (gateway.py, items.py).                *)
(*                                                                         *)
(* The client is external: it decodes each reply by the layout the         *)
(* protocol gives it, and sweeps over a board from its first page to the   *)
(* last one it has been told of; another request ends the sweep.  Changes  *)
(* of characters are those of Sessions, Levels and Attire, reduced to what *)
(* these replies show.  JSON is two strings between marks.  A reply is     *)
(* read before anything else happens: requests are served one by one.      *)
(***************************************************************************)
EXTENDS Ranking, Serinfo, FiniteSets

CONSTANTS
    Me,             \* the asking session's player_id
    Mine, Accounts, \* its account, and all those that create characters
    Names,          \* nicknames
    Stores,         \* the characters there may be when the client starts
    Items, Goods,   \* item ids; the numbers of goods of shops
    Equipment,      \* the items, or copies of one, that can be worn
    Souls,          \* war-souls, which have a place of their own
    Factories, PLAYERS_INFO,    \* the create_<NAME> of GBM_LOGIN_GAME: names and types
    Counts,         \* how many of an item
    Tokens, Pads,   \* session tokens and junk characters
    PosBag, PosEquip, PosWarsoul, AddType, CountType, PartCount,
    Bless,          \* what a click adds to bless
    MaxBody,        \* the largest size a frame's header can tell, a fragment to the client
    Busy,           \* bound: the places in chars of those that change
    MaxChanges      \* bound on the changes of characters

VARIABLES
    chars,          \* all characters, account by account as in the store
    startup,        \* the client is still about its server list
    reply,          \* the last answer: its kind, what was meant and the bytes
    sweep,          \* the client's walk over a board, and who is to be seen on it
    changes

vars == <<chars, startup, reply, sweep, changes>>

Nothing == [kind |-> <<"none">>]

\* A frame that to the client is the first of several: it waits for the rest.
Waiting == [kind |-> <<"fragment">>]

\* No reply is there to be read.
Quiet == reply \in {Nothing, Waiting}

Idle == [board |-> "", next |-> 1, last |-> 0, waiting |-> {}]

Pids == {c.pid : c \in Range(chars)}

Characters == [pid : Nat, account : Nat, name : Seq(0..(Byte - 1)), level : Nat, gear : SUBSET Equipment,
               exterior : [Range(ATTIRE_TYPES) -> [level : Nat, bless : Nat, quality : Nat]]]

\* A character as the game keeps it: no slot is past its last tier.
Proper(c) ==
    /\ c \in Characters /\ Text(c.name)
    /\ \A sid \in Range(ATTIRE_TYPES) : c.exterior[sid].level \in 1..Len(ShowAttr[sid])

Fields(f) == {f[j][1] : j \in DOMAIN f}

\* Player ids are given out in order; only a nickname is text, and no other struct of
\* the message has just the fields of PLAYERS_INFO.  Junk is printable: not the percent
\* sign, which a query may decode, nor ; which older Pythons take for &, nor > and ~,
\* for which base64 needs its + that a query loses.
ASSUME RepliesAssumption ==
    /\ {Me, Mine, PosBag, PosEquip, PosWarsoul, AddType, CountType, PartCount, Bless, MaxBody, MaxChanges}
          \cup Accounts \cup Items \cup Goods \cup Counts \subseteq Nat
    /\ Byte > 2 /\ MaxBody < Power.u32
    /\ IsFiniteSet(Equipment) /\ \A item \in Equipment : Score[item] \in Nat
    /\ \A name \in Names : Text(name)
    /\ \A s \in Stores :
          /\ s \in Seq(Range(s)) /\ \A c \in Range(s) : Proper(c)
          /\ \A i, j \in DOMAIN s : s[i].pid \in 1..Len(s) /\ (s[i].pid = s[j].pid => i = j)
          /\ Len(s) + MaxChanges < Power.u64
    /\ PLAYERS_INFO \in Factories /\ PLAYERS_INFO # <<>>
    /\ \A f \in Factories : /\ f \in Seq(STRING \X Simples)
                            /\ Fields(f) = Fields(PLAYERS_INFO) => f = PLAYERS_INFO
    /\ \A field \in Range(PLAYERS_INFO) : field[2] = str <=> field[1] = "nickname"
    /\ \A token \in Tokens : token \in Seq(0..255) /\ 44 \notin Range(token)
    /\ Pads \subseteq (33..125) \ {37, 59, 62}

NewRow(pid, account, name) ==
    [pid |-> pid, account |-> account, name |-> name, level |-> 1, gear |-> {},
     exterior |-> [sid \in Range(ATTIRE_TYPES) |-> [level |-> 1, bless |-> 0, quality |-> 0]]]

\* The asker's row, or what an unknown player's session shows.
Row == IF Me \in Pids THEN CHOOSE c \in Range(chars) : c.pid = Me ELSE NewRow(Me, Mine, <<>>)

Init ==
    /\ chars \in Stores /\ startup = TRUE
    /\ reply = Nothing /\ sweep = Idle /\ changes = 0

\* A reply: what it says, the layout the client reads it by, and its bytes.  A frame
\* longer than its header can tell is not sent: packing the header raises, and the
\* connection ends.  One of just that size leaves the client waiting, and the next is
\* lost to it as the rest of that one.
Tell(kind, layout, meant, body) ==
    reply' = IF Len(body) = MaxBody THEN Waiting
             ELSE IF Len(body) < MaxBody /\ reply = Nothing
             THEN [kind |-> kind, layout |-> layout, meant |-> meant, body |-> body]
             ELSE Nothing

Ask(kind, layout, message) ==
    /\ ~startup /\ Quiet
    /\ Tell(kind, layout, message, Write(layout, message))
    /\ sweep' = Idle
    /\ UNCHANGED <<chars, startup, changes>>
-----------------------------------------------------------------------------
\* bootstrap.py; text stands for a JSON document.
Json(a, b) == <<123>> \o a \o <<44>> \o b \o <<125>>

Blob(kind, meant, text) == reply' = [kind |-> kind, meant |-> meant,
                                     body |-> encode_serinfo(text, 1, 1, 90)]

\* serverstype, serverdetail and the recom of server/load.
ServerList ==
    /\ startup /\ reply = Nothing
    /\ \E list \in Tokens : Blob(<<"servers">>, Json(list, list), Json(list, list))
    /\ UNCHANGED <<chars, startup, sweep, changes>>

\* parse_qs of urlparse's query: the value ends with the query, at a #, or with the
\* field, at an &; a + in it means a space.
Cuts == {35, 38}
Queried(sent) ==
    LET cut == SelectInSeq(sent, LAMBDA c : c \in Cuts)
    IN  Swapped(IF cut = 0 THEN sent ELSE SubSeq(sent, 1, cut - 1), 43, 32)

\* An empty body instead of a blob; with it, the junk of the request.
Refused(pad) == [kind |-> <<"refused">>, junk |-> pad]

\* /api?data=: the session that came is echoed, if it can be decoded.
ApiLogin(sessionId, session, o, i, pad) ==
    /\ startup /\ reply = Nothing
    /\ LET sent == encode_serinfo(Json(sessionId, session), o, i, pad)
           text == decode_serinfo(Queried(sent))
           comma == SelectInSeq(text, LAMBDA c : c = 44)
           first == SubSeq(text, 2, comma - 1)
           token == IF first # <<>> THEN first ELSE SubSeq(text, comma + 1, Len(text) - 1)
           known == IF sessionId # <<>> THEN sessionId ELSE session
       IN  IF text = <<>> THEN reply' = Refused(pad)
           ELSE Blob(<<"session">>, Json(known, known), Json(token, token))
    /\ UNCHANGED <<chars, startup, sweep, changes>>

\* The sub-structs a dict may become: the fewest fields that hold all of its own,
\* whichever of them Lua lists first (_match_factory).
MatchFactory(keys) ==
    LET holding == {f \in Factories : keys \subseteq Fields(f)}
    IN  {f \in holding : \A g \in holding : Cardinality(Fields(f)) <= Cardinality(Fields(g))}

Player(c) == [pid |-> c.pid, level |-> c.level, sex |-> 1, profession |-> 2, camp |-> 1,
              nickname |-> c.name, status |-> 0]

\* on_login_game, through LuaProto.encode: fields nobody sets keep their default.
LoginGame ==
    /\ startup /\ startup' = FALSE /\ reply = Nothing
    /\ LET own == Kept(chars, {c \in Range(chars) : c.account = Mine})
           last == IF own = <<>> THEN 0 ELSE own[Len(own)].pid
           Set(c, k) == IF k \in DOMAIN Player(c) THEN Player(c)[k] ELSE 0
           Part(f, c) == [j \in DOMAIN f |-> Set(c, f[j][1])]
           Message(f) == <<0, last, [i \in DOMAIN own |-> Part(f, own[i])]>>
           Layout(f) == <<u32, u64, List([j \in DOMAIN f |-> f[j][2]])>>
       IN  \E f \in MatchFactory(Fields(PLAYERS_INFO)) :
               Tell(<<"login">>, Layout(PLAYERS_INFO), Message(PLAYERS_INFO),
                    Write(Layout(f), Message(f)))
    /\ UNCHANGED <<chars, sweep, changes>>
-----------------------------------------------------------------------------
\* What a client on a sweep makes of a page: who is on it need not be seen any more.
Swept(name, page, read) ==
    IF read = <<>> THEN Idle
    ELSE LET seen == {e[1] : e \in Range(read[Len(read) - 1])}
             goal == IF kind_of(name) = "NORMAL" THEN Pids ELSE {}
             Walk(waiting) == [board |-> name, next |-> page + 1, last |-> read[Len(read)],
                               waiting |-> waiting \ seen]
         IN  IF page = 0 THEN Walk(goal)
             ELSE IF name = sweep.board /\ page = sweep.next /\ page <= sweep.last
             THEN Walk(sweep.waiting) ELSE Idle

\* on_query_ranking.
QueryRanking(name, page) ==
    /\ ~startup /\ Quiet
    /\ LET entries == Entries(name, chars)
           index == SelectInSeq(entries, LAMBDA c : c.pid = Me)
           message == RankMessage(name, page, index, Row, PageOf(entries, page),
                                  MaxPage(entries))
           layout == RankLayout(name)
       IN  /\ Tell(<<"rank", name, page>>, layout, message, Write(layout, message))
           /\ sweep' = IF Quiet' THEN Idle
                       ELSE Swept(name, page, Parsed(layout, reply'.body))
    /\ UNCHANGED <<chars, startup, changes>>

Capped(n) == IF n < Word THEN n ELSE Word - 1

\* on_show_query; no figure is displayed (Attire).
ShowQuery ==
    LET Slot(sid) == Row.exterior[sid]
    IN  Ask(<<"attire">>, <<str, List(<<u8, u8, u16, u16, u8>>)>>,
            <<Row.name, [i \in DOMAIN ATTIRE_TYPES |-> LET sid == ATTIRE_TYPES[i] IN
                <<sid, Slot(sid).level, Capped(Slot(sid).bless), Capped(Slot(sid).quality), 0>>]>>)

\* on_shop_query: of each of a shop's goods, how often it was bought (WriteArray).
ShopQuery ==
    \E n \in Goods, bought \in Counts :
        Ask(<<"shop">>, <<u32, List(<<u16>>)>>,
            <<0, [i \in 1..n |-> <<Capped(IF i % 2 = 1 THEN bought ELSE 0)>>]>>)

PosFor(item, worn) ==
    IF item \in Equipment /\ worn THEN PosEquip ELSE IF item \in Souls THEN PosWarsoul ELSE PosBag

ItemLayout(item) ==
    <<u16, u64, u32, u32, u8, u8, u32>>
        \o IF item \in Equipment THEN <<str, str, str>> ELSE <<>>

EmptyTable == <<1, 2>>      \* "{}"

\* encode_add.
AddItem(uid, item, count, worn) ==
    Ask(<<"items">>, <<List(<<u64, u16>> \o ItemLayout(item))>>,
        << << <<uid, AddType, 0, uid, item, count, PosFor(item, worn), 0, 0>>
               \o IF item \in Equipment THEN <<EmptyTable, EmptyTable, EmptyTable>> ELSE <<>> >> >>)

\* encode_count.
CountItem(uid, count) ==
    Ask(<<"items">>, <<List(<<u64, u16, u32>>)>>, << << <<uid, CountType, count>> >> >>)

EquipStructs == << <<u8, u16>>, <<u8, u16>>, <<u32, u32, u32, u32, u32>>, <<u8>>, <<u8>>,
                   <<u16>>, <<u16, u8, u8, u8, u8, u8, u8>> >>

\* push_equip_info, encode_equip_info: a struct of zeros for every part, of each kind.
EquipInfo ==
    Ask(<<"equip">>, [k \in DOMAIN EquipStructs |-> List(EquipStructs[k])],
        [k \in DOMAIN EquipStructs |-> [part \in 1..PartCount |->
            [j \in DOMAIN EquipStructs[k] |-> 0]]])
-----------------------------------------------------------------------------
\* Bound: pages of the boards that are never filled.
Pages(name) == IF kind_of(name) = "NORMAL" THEN 0..(Byte - 1) ELSE {0}

Changed(new, waiting) ==
    /\ ~startup /\ Quiet
    /\ changes < MaxChanges /\ changes' = changes + 1
    /\ chars' = new /\ sweep' = [sweep EXCEPT !.waiting = waiting]
    /\ UNCHANGED <<startup, reply>>

\* A new character is its account's last (add_character).
Create(account, name) ==
    LET own == {i \in DOMAIN chars : chars[i].account = account}
        at == IF own = {} THEN Len(chars) + 1 ELSE Max(own) + 1
    IN  Changed(InsertAt(chars, at, NewRow(Len(chars) + 1, account, name)), sweep.waiting)

\* A character goes up on some board: the sweep may miss it, and nobody else.
Rises(i, c) == Changed([chars EXCEPT ![i] = c], sweep.waiting \ {c.pid})

LevelUp(i) == Rises(i, [chars[i] EXCEPT !.level = @ + 1])

Refine(i, sid) == Rises(i, [chars[i] EXCEPT !.exterior[sid].quality = @ + 1])

\* A click of bless, with or without reaching the next tier.
ClickBless(i, sid) ==
    \/ Rises(i, [chars[i] EXCEPT !.exterior[sid].bless = @ + Bless])
    \/ /\ chars[i].exterior[sid].level < Len(ShowAttr[sid])
       /\ Rises(i, [chars[i] EXCEPT !.exterior[sid] =
              [level |-> @.level + 1, bless |-> 0, quality |-> @.quality]])

PutOn(i, item) == Rises(i, [chars[i] EXCEPT !.gear = @ \cup {item}])

\* Who loses power lets all others on a board by power rise.
TakeOff(i, item) ==
    LET c == [chars[i] EXCEPT !.gear = @ \ {item}]
    IN  IF char_power(c) < char_power(chars[i]) /\ sweep.board \notin DOMAIN ATTIRE_BOARDS
        THEN Changed([chars EXCEPT ![i] = c], {})
        ELSE Rises(i, c)

\* The client has read its reply.
Receive == ~Quiet /\ reply' = Nothing /\ UNCHANGED <<chars, startup, sweep, changes>>

Next ==
    \/ Receive
    \/ ServerList \/ LoginGame
    \/ \E a, b \in Tokens, o, i \in {1, 2, 9}, pad \in Pads : ApiLogin(a, b, o, i, pad)
    \/ \E name \in DOMAIN Spelling : \E page \in Pages(name) : QueryRanking(name, page)
    \/ ShowQuery \/ ShopQuery \/ EquipInfo
    \/ \E item \in Items, count \in Counts, worn \in BOOLEAN : AddItem(Len(chars), item, count, worn)
    \/ \E count \in Counts : CountItem(Len(chars), count)
    \/ \E account \in Accounts, name \in Names : Create(account, name)
    \/ \E i \in DOMAIN chars \cap Busy :
          \/ LevelUp(i)
          \/ \E item \in Equipment : PutOn(i, item) \/ TakeOff(i, item)
          \/ \E sid \in Range(ATTIRE_TYPES) : Refine(i, sid) \/ ClickBless(i, sid)

Spec == Init /\ [][Next]_vars
-----------------------------------------------------------------------------
FittedSimple(f, v) == IF f = str THEN v ELSE v % Power[f[1]]
FittedStruct(layout, vals) == [i \in DOMAIN layout |-> FittedSimple(layout[i], vals[i])]
FittedField(f, v) == IF f[1] = "list" THEN [i \in DOMAIN v |-> FittedStruct(f[2], v[i])]
                     ELSE FittedSimple(f, v)
Fitted(layout, vals) == [i \in DOMAIN layout |-> FittedField(layout[i], vals[i])]

Blobs == {<<"servers">>, <<"session">>}
Bare  == {<<"none">>, <<"fragment">>, <<"refused">>}
Told  == reply.kind \notin Blobs \cup Bare

\* Whatever the client asks, it can read the whole answer, if that is shorter than a
\* fragment and follows none, and reads what was meant: strings and lists of every
\* length, numbers as far as their fields hold them, whichever struct Lua lists first
\* (codec.py, ranking.py, items.py, luaproto.py).
ReplyRead == Told => Parsed(reply.layout, reply.body) = Fitted(reply.layout, reply.meant)

\* The server list, and the session the client sent, come out of the two layers of
\* base64 as they went in, through a query string and with any amount of junk; none is
\* refused but for junk that ends the query's value (serinfo.py, api_login_response).
BlobRead ==
    /\ reply.kind \in Blobs => decode_serinfo(reply.body) = reply.meant
    /\ reply.kind = <<"refused">> => reply.junk \in Cuts

\* On a board everybody has the place that those ahead of it leave it, in the store's
\* order among equals; a page shows its ten with the power their field holds, and the
\* asker's place is told where one byte can tell it (on_query_ranking).
RankTrue ==
    \A name \in {n \in DOMAIN Spelling : kind_of(n) = "NORMAL"}, page \in 0..(Byte - 1) :
    reply.kind = <<"rank", name, page>> =>
        LET read == Parsed(reply.layout, reply.body)
            shown == read[Len(read) - 1]
            Ahead(i) == Cardinality({j \in DOMAIN chars :
                \/ Above(Keys(name, chars[j]), Keys(name, chars[i]))
                \/ Keys(name, chars[j]) = Keys(name, chars[i]) /\ j < i})
        IN  /\ \A i \in DOMAIN chars :
                  /\ chars[i].pid = Me /\ Ahead(i) + 1 < Byte => read[4] = Ahead(i) + 1
                  /\ {k \in DOMAIN shown : shown[k][1] = chars[i].pid}
                        = IF Ahead(i) \div RANK_PAGE_SIZE = page
                          THEN {(Ahead(i) % RANK_PAGE_SIZE) + 1} ELSE {}
            /\ \A k \in DOMAIN shown : \E c \in Range(chars) :
                  c.pid = shown[k][1] /\ shown[k][2] = PowerOn(name, c) % Power.u32

\* Who goes through a board from its first page to its last while characters are
\* created and rise sees everyone who was there and has not risen, as long as the
\* last page's number fits its byte: nobody falls behind a page already read, unless
\* somebody takes off gear on a board by power (on_query_ranking, attire_power).
NoneMissed ==
    sweep.next > sweep.last /\ Len(chars) <= Byte * RANK_PAGE_SIZE => sweep.waiting = {}
=============================================================================

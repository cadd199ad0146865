------------------------------ MODULE Ranking ------------------------------
(***************************************************************************)
(* The power score and the boards of gateway.py, and ranking.py's message. *)
(*                                                                         *)
(* A character is a record: pid, account, name, level; gear, the items it  *)
(* wears, two copies of one having two names; in exterior, per attire      *)
(* type, its tier (level), bless and quality.  The static tables are       *)
(* constants, attributes are pairs <<id, value>>.                          *)
(***************************************************************************)
EXTENDS Codec, Integers

CONSTANTS
    BaseAttrs,      \* PLAYER_BASE_ATTRS without sex, profession and camp
    POWER_WEIGHTS,
    Score,          \* TB_ITEM's score of each item, 0 where it has none
    ATTIRE_TYPES,   \* in the code's order
    ShowAttr,       \* SHOW_CFG's attr, per attire type and tier
    QualityAttr,    \* SHOW_EXT_CFG's quality_attr, per attire type
    ATTIRE_BOARDS,  \* the attire type of each attire board
    Spelling,       \* the name of each board on the wire
    RANK_PAGE_SIZE

Attributes == Seq(Nat \X Nat)

\* A text whose length can be told.
Text(s) == s \in Seq(0..(Byte - 1)) /\ Len(s) < Word

ASSUME RankingAssumption ==
    /\ RANK_PAGE_SIZE \in Nat \ {0} /\ BaseAttrs \in Attributes
    /\ \A id \in DOMAIN POWER_WEIGHTS : POWER_WEIGHTS[id] \in Nat
    /\ ATTIRE_TYPES \in Seq(Nat)
    /\ \A sid \in Range(ATTIRE_TYPES) :
          /\ ShowAttr[sid] \in Seq(Attributes) /\ ShowAttr[sid] # <<>>
          /\ QualityAttr[sid] \in Attributes
    /\ \A name \in DOMAIN ATTIRE_BOARDS : ATTIRE_BOARDS[name] \in Range(ATTIRE_TYPES)
    /\ "level_ranking" \notin DOMAIN ATTIRE_BOARDS
    /\ \A name \in DOMAIN Spelling : Text(Spelling[name])

\* What g gives the members of S, all together.
Total(g, S) == MapThenSumSet(LAMBDA x : g[x], S)

Weight(id) == IF id \in DOMAIN POWER_WEIGHTS THEN POWER_WEIGHTS[id] ELSE 0

compute_power(attrs) == Total([j \in DOMAIN attrs |-> Weight(attrs[j][1]) * attrs[j][2]], DOMAIN attrs)

char_power(c) == compute_power(BaseAttrs) + Total(Score, c.gear)

attire_power_top(c, sid) ==     \* a bug: only the tier itself, not those before it
    compute_power(ShowAttr[sid][c.exterior[sid].level])
        + c.exterior[sid].quality * compute_power(QualityAttr[sid])

\* All tiers so far, and the quality.
attire_power(c, sid) ==
    Total([tier \in DOMAIN ShowAttr[sid] |-> compute_power(ShowAttr[sid][tier])],
          1..c.exterior[sid].level)
        + c.exterior[sid].quality * compute_power(QualityAttr[sid])
-----------------------------------------------------------------------------
kind_of(name) ==
    CASE name = "arena_ranking" -> "ARENA"
      [] name = "pet_ranking" -> "PET"
      [] name = "charm_ranking" -> "CHARM"
      [] name \in {"recharge_ranking", "consume_ranking", "sevendaysconsume_ranking",
                   "kaifu_recharge_ranking"} -> "ACT"
      [] name = "guildscore_ranking" -> "GUILD_SCORE"
      [] name = "guildkill_ranking" -> "GUILD_KILL"
      [] OTHER -> "NORMAL"

PowerOn(name, c) == IF name \in DOMAIN ATTIRE_BOARDS THEN attire_power(c, ATTIRE_BOARDS[name])
                    ELSE char_power(c)

Keys(name, c) == IF name = "level_ranking" THEN <<c.level, char_power(c)>>
                 ELSE <<PowerOn(name, c), 0>>

Above(j, k) == j[1] > k[1] \/ (j[1] = k[1] /\ j[2] > k[2])

\* Sorting downwards, stably, one by one: the next goes before the first of those
\* sorted so far that it is above, behind them all if there is none.
Insert(key, s, k) == InsertAt(s, Min({r \in DOMAIN s : Above(key[k], key[s[r]])} \cup {k}), k)

Sorted(key) ==
    LET order[k \in 0..Len(key)] == IF k = 0 THEN <<>> ELSE Insert(key, order[k - 1], k)
    IN  order[Len(key)]

RankedYoungFirst(name, chars) ==    \* a bug: sorted upwards, then turned round
    LET key == [i \in DOMAIN chars |-> [j \in 1..2 |-> -Keys(name, chars[i])[j]]]
        order == Reverse(Sorted(key))
    IN  [r \in DOMAIN chars |-> chars[order[r]]]

\* all_characters(), in the store's order, sorted.
Ranked(name, chars) ==
    LET order == Sorted([i \in DOMAIN chars |-> Keys(name, chars[i])])
    IN  [r \in DOMAIN chars |-> chars[order[r]]]

Entries(name, chars) == IF kind_of(name) = "NORMAL" THEN Ranked(name, chars) ELSE <<>>

MaxPage(entries) == IF entries = <<>> THEN 0 ELSE (Len(entries) - 1) \div RANK_PAGE_SIZE

PageOf(entries, page) ==
    SubSeq(entries, page * RANK_PAGE_SIZE + 1,
           IF (page + 1) * RANK_PAGE_SIZE < Len(entries) THEN (page + 1) * RANK_PAGE_SIZE
           ELSE Len(entries))
-----------------------------------------------------------------------------
\* The RANKING_*_INFO structs, and what _write_info puts into them: vip, profession,
\* figures, values and scores are 0, guilds and pets empty, everybody is single.
InfoLayout == [
    NORMAL      |-> <<u64, u32, str, u16, u8, str>>,
    ARENA       |-> <<u64, u32, str, u8, u16, u32, u32>>,
    PET         |-> <<u64, u32, str, u16, u8, str, str>>,
    CHARM       |-> <<u64, u32, str, u16, u8, str, u8>>,
    ACT         |-> <<u64, u32, str, u16, u8, str, u8>>,
    GUILD_SCORE |-> <<u64, u32, str, str, u16>>,
    GUILD_KILL  |-> <<u64, u32, str, u16, u8, str, u32>>]

Info(kind, c, power) ==
    LET head == <<c.pid, power, c.name, c.level, 0, <<>> >>
    IN  CASE kind = "NORMAL" -> head
          [] kind = "ARENA" -> <<c.pid, power, c.name, 0, c.level, 0, 0>>
          [] kind = "PET" -> Append(head, <<>>)
          [] kind = "CHARM" -> Append(head, 2)
          [] kind = "ACT" -> Append([head EXCEPT ![2] = 0], 0)
          [] kind = "GUILD_SCORE" -> <<0, 0, <<>>, c.name, c.level>>
          [] kind = "GUILD_KILL" -> Append(head, 0)

RankLayout(name) == LET info == InfoLayout[kind_of(name)]
                    IN  <<u32, str, u8, u8>> \o info \o <<List(info), u8>>

\* encode: result, board, page, index, the asker's entry, the page's, the last page.
\* Who is not on the board shows its power score (total_power).
RankMessage(name, page, index, mine, entries, last) ==
    LET Entry(c, power) == Info(kind_of(name), c, power)
    IN  <<0, Spelling[name], page, index>>
            \o Entry(mine, IF index = 0 THEN char_power(mine) ELSE PowerOn(name, mine))
            \o <<[i \in DOMAIN entries |-> Entry(entries[i], PowerOn(name, entries[i]))], last>>
=============================================================================

# A verification project for the Legacy of Destiny private server

The server is one Python asyncio process (`src/server/gateway.py`) that plays the
gateway of a game whose client is fixed: it accepts TCP connections, answers
requests, pushes events and keeps all characters in one JSON file. This directory
holds TLA+ models of its core, the TLC configurations that check them, and TLAPS
proofs of what matters most. Paths below are relative to `src/server/`.

## 1. The system

| Component | State it keeps | Operations | Interacts with |
|---|---|---|---|
| Storage (`storage.py`) | `_data`, `accounts.json`, `accounts.json.tmp` | `_load`, `save`, `add_character`, `next_playerid`, `find_by_pid` | every handler changes rows in place and calls `save` |
| Sessions (`Session`, login handlers, `save_session`) | per connection: player id, `in_world`, cached level/exp/money/place, `item_uid` | select, create, enter, move, teleport, disconnect | copies a row at entry, writes it back at every save |
| Items (`give_item`, `on_equip_wear`, `items.py`) | `items`, `equipped` in the row; `item_uid` in the session | give, stack, wear, remove | shop, quest awards and drops call `give_item` |
| Population (`spawn_world`, `kill_and_respawn`) | `monsters`, `monster_spawns`, `monster_pos`; one task per death | populate, die, respawn | teleport and entry restart it, attacks feed it |
| Combat (`combat_loop`, `_pick_victims`, `on_player_revive`) | `hp`, `player_dead`, `monster_pos` | chase, strike, hit, die, revive | reads the population and the player's place |
| Drops (`_auto_pickup`, `on_pickup`) | `dropbags`, `dropbag_uid` | fall, be walked over, be picked up | filled by attacks; gives items |
| Shop (`on_shop_buy`) | `shop_bought` in the row | buy | `grant_money`, `give_item`, three saves |
| Quests (`on_task_op`, `advance_kill_quests`) | `tasks`, `task_prog` in the row | accept, progress, submit | kills; awards give exp, money and items |
| Levels (`grant_exp`) | level, exp | grant | kills and quests |
| Attire (`on_show_opt`, `on_show_figure_opt`) | `exterior`, `attire`, `figures` in the row | bless, improve, activate, star, display | the avatar's FIGURE1 |
| Connection (`handle_conn`, `dispatch`, `time_pusher`) | the socket, `alive`, three tasks | read, dispatch, answer, push, end | runs everything above |
| Ranking, power score (`on_query_ranking`, `ranking.py`) | none of their own | sort, cut into pages | read all characters, whoever changes them |
| Codec, Lua bridge, item and server-list messages (`codec.py`, `luaproto.py`, `items.py`, `serinfo.py`) | none | encode, decode | every reply |
| Bootstrap (`bootstrap.py`) | none | answer with server lists and the echoed session | the client before its first connection |
| Certificates, redirection, test client | none | set-up | – |

**Concurrency.** There is one thread. A handler never awaits inside, so it is one
step; between two steps any connection's loop, `time_pusher`, `combat_loop`,
`spawn_world` or `kill_and_respawn` may run. The hard behaviours are: tasks that
sleep and then use what they read before; two connections with one character;
several records of one thing (cached purse and row, three monster tables,
`items` and `equipped`, server state and client view); handlers that save several
times, with a crash or a failing save in between; boundaries of stacks, limits and
thresholds; a board sorted anew for every page that is asked for; encodings whose form
changes with a length. `PROJECT.json` lists them as hazards, each at its line.

**What makes each component correct.**

- Storage: never a torn file; no answered creation lost; a save looks atomic.
- Sessions: a save never writes stale values or another character's; nothing is
  only in memory between handlers; a character is saved where it was.
- Items: uids are unique, what is worn is owned.
- Population: one copy of a monster, on both sides; respawns are of dead monsters,
  with their own record, once, at the born point, and do happen.
- Combat: HP, death, HP bar and revival offer agree; who chases arrives, who is in
  range hurts, who is aimed at and near is hit.
- Drops: given exactly once, shown while they are there.
- Shop, quests: nothing for nothing, nothing twice, limits kept; whole where
  nothing fails (a shop's goods where they are ordered in diamond or gold).
- Levels: a row is worth what was paid into it, no level missed, the HUD right.
- Attire: tiers advance at the threshold; what is shown is owned and is what the
  client was told; what an operation was answered with is not taken back.
- Connection: server time and inventory keep arriving in a usable order; all tasks
  end with the connection.
- Replies: the client reads what was meant, at every length and in every field;
  everybody has the right place on a board, and going through it misses nobody.

## 2. Modules

| Module | Models | Its variables are |
|---|---|---|
| `DurableStore` | abstract: an image that changes, is made durable at one instant, is lost by a crash and comes back with a restart | `up`, `live`, `durable` |
| `Storage` | `storage.py`, step by step | `data` = `_data`, `file`, `tmp`, `step` = where `save` is |
| `Sessions` | sessions and rows over several connections | `data`, `disk`, `sess` = the `Session` objects |
| `Population` | the monsters of one session, over discrete time | the three tables; `spawnT`, `deaths` = the sleeping tasks; `shown` = the client's scene |
| `CombatRules` | the constants of a fight | – |
| `Combat` | abstract: the fight around one player, distances as three zones | `hp`, `player_dead`, `zone`; `bar`, `told` = the client |
| `Field` | the same fight with coordinates, order and targets, composed with the drops of `Loot`; it implements `Combat` | `order` = `s.monsters` in its order, `mpos` = `monster_pos`, `dying`, `spawning` = the tasks under way, `moves` |
| `Loot` | drops of one session | `dropbags`, `ground` = the client |
| `Shop` | one purchase, save by save | `row`, `disk`, `purse`, `pc` |
| `Quests` | the quest chain, save by save | `row`, `disk`, `view` = the client, `pc` |
| `Levels` | `grant_exp` | session, row, disk, HUD |
| `Rewards` | `Quests` and `Levels` composed: kills and awards pay exp | those of both, `credit` = `total_exp` of the attack under way |
| `Attire` | the attire panel | row, disk, `panel` and `look` = the client |
| `Connection` | one socket, its request loop and tasks | `inbox`, `wire`, a program point per task, what the client has seen |
| `Codec` | `CByteBuffer`: writing and reading along a layout, for a byte of any size | – (operators) |
| `Serinfo` | the two layers of base64 of `serinfo.py`, on real byte values | – (operators) |
| `Ranking` | the power score, the boards and `ranking.py`'s message | – (operators) |
| `Replies` | what the servers answer, as bytes, while characters change | `chars` = all rows in the store's order, `reply`, `sweep` = a client's way through a board |

`MC…` modules give the constants of an instance; `…Proofs` modules hold the
theorems. `PROJECT.json` maps every definition to source lines. One action is one
handler, or one step of a task between two awaits; in `Storage`, `Shop` and
`Quests`, where failures matter inside a handler, one action is the stretch between
two file operations or saves. A round of `combat_loop` awaits nothing and is one action
of `Field`; `Combat`, which it implements (property `CombatSpec`), forgets where monsters
stand. `Storage` justifies that the others take a save
as one step: it implements `DurableStore` (property `AbstractSpec`).

Each module models one aspect whole, and names what it leaves to another: money,
places and items are in `Sessions`, not again in `Shop`, `Quests` or `Loot`; time
is in `Population` only. `Rewards` extends `Quests` and instantiates `Levels`: one
session, one row, one file, so entry, save, failure, death and restart are the same
step of both, and the exp of a kill or an award part reaches `grant_exp` at the save
the code does it in. A variable marked *ghost* (`earned`, `worth`, `given`,
`slain`, `acked`, `answered`, …) records history for a property; no
action reads it but for a bound.

Definitions whose comment calls them bugs (`…Unsaved`, `…Late`, …) stand before
the definition they would replace. No specification uses them; each shows that a
property notices the corresponding mistake.

### What is assumed of the client

The client is fixed and not in the repository. Its discipline is a constant where
the server does not enforce it; the theorems name it as an assumption where they
need it.

- `Sessions.Takeover`: a character enters the world on a second connection while
  the first is still there (a dropped link the server has not noticed yet is enough).
  The run `sessions_takeover_uids` allows it. With it TLC refutes `NothingUndone` too:
  the last save of the older connection writes its purse over the newer one's.
- `Sessions.Reselect`: a connection in the world selects or enters again. With it
  TLC refutes `OnlyItsOwnSession`.
- `Population.Return`: a player is back on a map before the monsters killed there
  have respawned. With it TLC refutes `NoStacking`. `Population.Reenter`: the same
  connection enters again.
- `Quests.AnyTask`: a quest is accepted that was not offered; a finished one then
  pays again.
- Requests of the world come after `GW_LOGIN_GATEWAY` (docs/02-ARCHITECTURE.md,
  connection flow, steps 6 and 7). In `Attire`, figures fit one byte and slots are 1 to 4.

## 3. Runs

| Run | Checks | Instance and why it is enough |
|---|---|---|
| `storage` | `AckedKept`, refinement of `DurableStore` | 2 accounts, 3 ids, 2 crashes: a crash during recovery from a crash, ids after a loss |
| `sessions` | `WornIsOwned`, `NothingUndone`, `LogoutPlaceKept`, `UidsUnique`, `OnlyItsOwnSession` | 2 connections in turn on 1 character, and an id without a row; 2 cells of a gear and a stackable item, counts up to the stack's size: uids are continued over a reconnect, stacks fill exactly. Two characters in one row's way are covered by the proofs |
| `population` | `NoStacking`, `RespawnsRight` (of the dead, as itself, once), `ClientSeesAll`, `RespawnHappens`, `TasksEnd` | 2 maps, 2 uids, 2 deaths per uid at a time, sleeps of 1, 2 and 2 or 8 ticks (1.5 s each) in the order of the code's |
| `field` | `ClientKnows` (HP, death, HP bar and revival offer), `VictimsRight`, `EachDropOnce`, `ShownIsThere`, refinement of `Combat`, `StrikesLand`, `ChaseArrives` | the code's radii and step; 3 monsters: one in striking range, one that one step brings there, one that needs two, all off the axes, so that steps are rounded in both directions; `MAX_ATTACKERS` 1 with several in range; 2 drops; the player changes place three times (dying does not count) |
| `shop` | `FairTrade` (nothing ordered in diamond or gold unpaid, what is counted of listed goods is held, no limit passed), `BooksBalance` | a limited, an unlimited and a free good, one `tb_item` does not list; diamond, gold and another currency; 2 failures |
| `rewards` | `RewardedOnce`, `DoneWhenKilled`, `ViewTrue`, `ChainAdvancesUnlessFault`, `LevelsShown`, `ExpAccounted` | a chain of three, one a hunt of two kills paid in two parts, one of them exp; 4 levels whose costs are not monotone; a kill that takes two levels at once; attacks on several victims; 2 failures |
| `connection` | `UnreadBounded`, `SeededFirst`, `ServerTimeAdvances`, `BagRestored`, `EndsWithItsClient` | 2 requests of 5 kinds, a buffer of 1: every cancellation of a population by the next request |
| `attire` | `TierAdvances`, `ShownIsOwned`, `ClientTrue` (avatar, and panel while no save has raised), `NothingTakenBack` | 2 slots, 2 figures and none (0), 3 tiers, 5 operations: past the last tier; a byte and a word of two bits |
| `replies` | `ReplyRead`, `BlobRead`, `RankTrue`, `NoneMissed` | a byte of 4 values, so that sizes and strings change form at 3 and 15 instead of 255 and 65535, and a place or page wraps beyond 3; pages of 2; up to 10 characters of 2 accounts, names of 1, 3 and 15 bytes; 2 changes of characters during a sweep; a frame's size up to 95, which some replies reach and some exceed. The base64 is on real bytes: the tokens hold bytes whose digits are `+`, `/` and padding; the junk is the code's `Z`, a `+` and an `&`, which cuts the query's value |

Where the proofs of section 4 cover an invariant for every instance and nothing was
left to ask of a small one, no run repeats it: the type invariants of `Storage`,
`Sessions`, `Population`, `Combat`, `Shop`, `Quests`, `Attire` and `Connection`, and
`NeverTorn`, `RowsAreSaved`, `PurseCoherent`, `MonstersComplete`.

`Field` computes a chase in whole numbers (`Approach`), the code with floats; the two
agree for every offset within `AGGRO_RADIUS` in both coordinates (compared outside
TLC over all of them). `Replies` decodes with `Codec`'s readers, which are the code's
own; the client's are external and follow the same format.

Every bound is a constant whose declaration says so (`MaxCrash`, `MaxFaults`,
`MaxDrops`, `MaxSent`, …).

### Where the code and its comments disagree

Each of these runs checks one sentence of the repository and finds a behaviour of
the code against it; `PROJECT.json` quotes the sentences.

| Run | What happens |
|---|---|
| `sessions_takeover_uids` | two sessions of one character hand out the same item uid |
| `population_bornpoint` | a respawned monster stands, for the server, where it died |
| `shop_currency` | an order whose `m_nMType` is neither diamond nor gold is given and counted, and nothing is charged |

The models also show, without a run of their own, where a promise ends:
`AckedKept` needs that reading `accounts.json` at start does not fail
(`Storage.ReadMayFail`), since `_load` makes an empty store of any error and the next
save writes it; `BooksBalance` and `ChainAdvancesUnlessFault` say `faults = 0`,
since a crash between two saves of a purchase or a submission keeps the first half.
`FairTrade` is about orders in diamond or gold and, where it compares counts with goods,
about goods that `tb_item` lists: `give_item` returns early for another one, which is
charged and counted all the same. `NothingTakenBack` speaks of what was answered: a
displayed figure is pushed before its save, and a save that raises may lose it.
A drop survives a teleport and is compared by coordinates only, so that it can be picked
up on another map; no document says that it must not.
`ReplyRead` is about answers shorter than a fragment. `docs/01-PROTOCOL.md:35-41` says that
a size of 65535 marks a fragment and asks to keep every response below it; nothing in the
code does: a character list of just that size leaves the client waiting for more
(`Replies.Waiting`, which TLC reaches in the run `replies`), and a longer one is not sent.

### Fairness

Liveness is claimed only where the scheduler promises something.

- `Population`: weak fairness of the ticks and of every due task. asyncio wakes a
  sleeper when its time has come and runs what is ready; no request is promised.
- `Field`: weak fairness of `CombatLoop`: `combat_loop` wakes every `COMBAT_TICK`. The
  player may do anything, and need do nothing; `ChaseArrives` is about one who has
  stopped changing place, since one who always leaves is never caught.
- `Connection`: weak fairness of the loop's own steps and of a client that reads what
  it is sent; strong fairness of the tasks that drain, because the transport wakes every
  waiting drain when its buffer empties, and a woken drain does not look at the
  buffer again. A client is not assumed to ask anything, to leave, or to stay.

## 4. Proofs

All hold for every value of the constants that meets the named `ASSUME`s.

- `SaveProofs`, of `Storage` and of `Shop`, which share no variable.
  - `Storage`: `StoreTypeCorrect`, `FileNeverTorn` (`NeverTorn`, which no run repeats); with
    `~ReadMayFail`, `AckedSurvives` (`AckedKept`) and `Refinement` (`StoreSpec => AbstractSpec`).
    `AckedKept` is not inductive: `SaveInv` adds that before the rename the temporary file
    holds the image in memory, and that the row being created is in it.
  - `Shop`: `TypeCorrect`, `TradeIsFair` (`FairTrade`), `BooksAlwaysBalance`. In the
    middle of an order the balances hold only with what it still owes (`Owed`), has not
    counted (`Uncounted`) or will count (`Coming`).
- `SessionsProofs`. `TypeCorrect`, `RowsSaved` and `WornOwned` for any client. With `Discipline`
  (`~Takeover /\ ~Reselect`): `PurseNeverStale`, `NothingIsUndone`,
  `OwnSessionOnly`, `PlaceIsKept` (`LogoutPlaceKept`), `UidsAreUnique` (`UidsUnique`). The
  strengthening is `Alone`, at most one session of a character in the world, and `Named`,
  which ties a session's player id to the character it entered with; for the uids, that
  the session's counter is beyond every uid of the row.
- `PopulationProofs`. `TypeCorrect` for any player. With `Patient`
  (`~Return /\ ~Reenter`): `NeverStacked`, `RespawnsAreRight`, `ClientAndServerAgree`.
  The inductive invariant has ten named parts; the core is `DeadAndKnown` (a task that
  will respawn here has a dead monster and its own template on record),
  `ClearedWhileWaiting` and `EndsBeforeSpawn`, which needs
  `AnimDelay < SpawnDelay` (1.5 s and 3 s in the code): a death that was overtaken by
  a teleport is over before the next population arrives.
- `QuestsProofs`, of `Quests` and of `Rewards`. For any client: `TypeCorrect`, `KillsCount`
  (`DoneWhenKilled`), `ListIsRight` (`ViewTrue`); with `Offered` (`~AnyTask`): `AwardedOnce`
  (`RewardedOnce`) and `ChainLeadsOn` (`ChainAdvancesUnlessFault`). `Paying` says how far
  the award under way has come, `Chained` what holds of all the others. The composition
  implements both its parts (`RewardsImplementQuests`, `RewardsImplementLevels`), so these
  theorems are its own too, and has two of its own: `LevelsAreShown` (`LevelsShown`) and, with
  `Offered`, `ExpIsAccounted` (`ExpAccounted`). For the latter, `Loop` says what
  the loop of `grant_exp` computes for any curve: it keeps
  the sum of the exp spent on levels and the rest, and stops only where no level can be paid.
  `Balanced` follows the two rows through the save between an award part and its exp.
- `AttireProofs`. `TypeCorrect`, `TiersAdvance` (`TierAdvances`), `ShownOwned`
  (`ShownIsOwned`), `ClientSeesItsLooks` (`ClientTrue`) and the action property
  `NothingIsTakenBack` (`NothingTakenBack`), for any thresholds, figures and widths. Row and
  disk are `Dressed` alike, since a restart makes one of the other; `Faultless` ties them,
  and the panel, as long as no save has raised; `Keeps` says of each operation that
  nothing of the row gets less. `Kept` ties what was last answered (`answered`, a ghost) to
  both: row and disk may be ahead of it, by operations whose save raised, but never behind,
  and `GrowsOn` lets that go on through any number of steps.
- `ConnectionProofs`. `TypeCorrect`, `SeededInOrder` (`SeededFirst`), `UnreadStaysBounded`
  (`UnreadBounded`), for any limit of the transport and any number of requests. `Ahead` is
  `SeededFirst` looked at through the bytes still on the wire; `Seeded` says that whoever
  pushes items was started by a login that has sent the bag. Of what is unread, `Owed` counts
  what each writer may have written since the transport last had room.
- `FieldProofs`, of `Combat`, `Loot` and `Field`, for any number of monsters, any radii and
  any places.
  - `CombatTypeCorrect`, `CombatAgrees`: HP, death, HP bar and revival offer agree (`CInv`).
  - `LootTypeCorrect`, `LootGivenOnce`, `LootShownIsThere`. A count of one bag per uid is not
    inductive: `Numbered` says the uids are those handed out, each in one bag, `GivenOnce`
    that an item was given exactly where the bag is gone (together `DropInv`).
  - `FieldImplementsCombat` (`FieldSpec => CombatSpec`): every handler is one of
    Combat's actions or leaves its state alone. The work is in `combat_loop`: `RoundDid`
    follows a round monster after monster and says what it has done when those in a set have
    had their turn; `PartBetween` and `StepCloser` bound the rounded coordinates, so that a
    chasing monster stays in `AGGRO_RADIUS` and its zone is "chase" or "strike".
  - `NearestAreHit` (`VictimsRight`): the candidates are a sorting of the finite set in
    reach (`InOrderIs`), and the victims its first `cap`.
  - `ClientIsTold`, `FieldGivesOnce`, `FieldShowsWhatIsThere`: the invariants of the two parts
    in the composition. `FInv` is what they need of the tables: `s.monsters` repeats no uid,
    and a sleeping task that brings monsters means that the player is in the world.
- `RepliesProofs`, of `Replies` with `Codec`, `Serinfo` and `Ranking`, for a byte of any size, any
  tables, names, factories and pages, and any number of characters and changes. `IInv`
  (`IInvHolds`) is `Game`, characters as the game keeps them, with the ids handed out so far,
  one each, and `Answer`: what a client has not read yet is the writing of a message
  that fits its layout, and a board's message is the one of the characters there are.
  - `RepliesAreRead` (`ReplyRead`): the round trip of `codec.py`. `MessageRead` says it of any
    message that fits its layout: what one field reads behind another is what that field can
    tell of its value (`OneRead` to `EightRead`, `LengthRead`, `StringRead`, `SizeRead`, then
    `SimpleRead`, `StructRead`, `FieldRead`), wherever in a body it stands, and pieces
    that lie in a row are read in turn (`JoinedRead`). It needs that the body is shorter than
    the largest size: a frame's header sees to that (`MaxBody < Power.u32`). A body of `MaxBody`
    is a fragment to the client and answers nothing (`Waiting`); `ReplyRead` is about the
    shorter ones. Then every
    request's message fits, all seven kinds of board entry and items of both kinds among
    them; for the character list, that `MatchFactory` finds the struct the client
    reads, whichever Lua lists first.
  - `BlobsAreRead` (`BlobRead`): `Base64Read`, on real bytes and for texts of any length, then
    the junk and the number around each layer (`CarriedRead`). A query string makes a space
    of a `+`, which the decoder would drop: the outer layer has none, because the inner
    one and the junk are ASCII without `>` and `~` (`EncodedAscii`). It also ends the value
    at an `&` or a `#`, which only junk can be (`NoCut`). The outer junk, where such a
    character stands, is behind the blob, and what is left of it is refused by the decoder
    (`QueriedCut`): the client gets its session or an empty answer, never another session.
  - `RanksAreTrue` (`RankTrue`): `SortedInOrder` and `Places` say of any keys that sorting leaves
    each at the place that those ahead of it leave it; `ShownIs`, that a page shows exactly
    the places that divide to its number; `WrittenRank`, that the client reads that.
  - `NobodyIsMissed` (`NoneMissed`) is not inductive: it says nothing while the sweep is under
    way. `Sweeps` does: whoever still waits to be seen has at least as many ahead as the
    pages read hold, and the last page told is not yet read (`Waits`). Powers never
    fall by a level, a tier or gear put on, though bless starts again (`Better`, `PowerGrows`,
    which rests on `TotalGrows` about sums); one that rises, or comes last among
    equals, can only be put ahead of those that wait (`RiseAhead`, `CreateAhead`).

  `RankingAssumption` and `RepliesAssumption` say of the tables what the code's are: weights and
  attributes are natural, every attire type has tiers, board names and nicknames have a length
  two bytes can tell, ids are given out in order; a character never is past its last tier
  (`Proper`). One is about the client's Lua files: no other factory has exactly the fields of
  `PLAYERS_INFO`, since with two such `_match_factory` takes the one Lua lists first. Junk
  characters are printable ASCII (the code's is `Z`) other than `>` and `~`, whose lower six
  bits are the digit `+`, and other than `%` and `;`, which a query decodes or, for older
  Pythons, splits at.

The provers cannot instantiate the library's induction theorems. Where a proof needs
induction over data (sorting, sums, the loop of `grant_exp`, the monsters of a round,
the bytes of a message), it takes the least counterexample among finite sets instead
(`LeastSubset`, `LeastSet`, `SetInduction`),
which the library's theorem on well-founded sets gives.

Only model-checked:

- liveness, in `population`, `field` and `connection`: it needs fairness and `ENABLED`,
  which the prover does not reason about;
- the properties of the runs that expect a violation.

Every invariant and action property of the passing runs is also a theorem.

## 5. Not modelled

- The layouts of messages that go through `luaproto.py`: they are the client's Lua files,
  which are not in the repository. Of these only the character list is modelled, with
  sub-structs chosen as `_match_factory` does, and the counts of a shop. Messages that
  Python lays out itself are modelled byte for byte.
- Requests are taken as decoded; opcode names and the loading of Lua modules.
- Signed numbers and floats in `codec.py`: no modelled reply has one.
- Static data (`tb_*`): constants, chosen per instance.
- Choosing a document by its URL, HTTP headers, certificate generation, redirection: pure
  I/O. The query of `/api` is modelled where
  it matters to a blob: `+`, `&` and `#`.
- Handlers that answer constants (`on_function_notice`, `on_equip_panel`, `on_office`)
  or only read (`on_show_figure_query`).
- An exception other than a cancellation inside `spawn_world`; a save that raises in the
  `finally` block of `Connection` (its tasks would then go on); undrained pushes of
  `combat_loop`, which nothing bounds. `PROJECT.json` notes these at their hazards.
- In `Field`: a monster's HP (any hit may be the last one) and the clock of respawning, which
  `Population` has; a second death of a monster while its first respawn sleeps.

## 6. Plan

Written, in this order: Storage, Sessions, Population, Combat, Loot, Shop, Quests,
Connection, Attire, Levels, Rewards, Field, Codec, Serinfo, Ranking, Replies, and the proofs of
all of them. What could come next:

1. Liveness by proof: the variants are there (`StepCloser` for `ChaseArrives`, the due times of
   `Population` for `RespawnHappens`), the reasoning about `ENABLED` is not.
2. Signed numbers and floats in `Codec`, once a modelled reply has one.
3. The layouts of the client's Lua files, if they become part of the repository.

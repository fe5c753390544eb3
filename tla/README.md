# TLA+ models of Lemni

Lemni is a small expression language with an embeddable C library (`lib/`, C++17
behind the C headers of `include/lemni/`) and a REPL (`repl/`). A source text is
lexed, parsed and typechecked into typed expressions, whose memory can be charged
to regions, and which are evaluated. The library is single-threaded: what is hard
about it is not interleaving but recursion, ownership through raw pointers, small
state machines stepped by a caller, and arithmetic at the limit of a width.

## Inventory

| Component | Code | State it keeps | Operations | Hard parts |
|---|---|---|---|---|
| Regions and storages | `lib/Region.cpp/.hpp` | parent, children, storages of a region; owner and size of a storage; raw pointers both ways | create, destroy, alloc, transfer, preserve; size and alignment queries | dangling links, double frees, reuse of addresses, rounding at 2^64 |
| Memory checker | `lib/memcheck.cpp` | per state: the pool to charge, regions it created, region of each function | check (recursive over an expression), destroy | which regions a state may destroy, functions checked again or after an error |
| Type set | `lib/Type.cpp` 267-790 | type infos, one map per kind of type | request a type | mutual recursion, index taken before the parts are made |
| Type rules | `lib/Type.cpp` 31-144, 804-1054, `lib/typecheck.cpp` 1319-1343, 1469-1525 | none; a block's type so far | castable, promote, make signed, result of an operator | order of promotion, widths, 0 bits meaning any precision |
| Lexer | `lib/lex.cpp` | remainder, location, open indentation levels, backlog of tokens | `lemniLex`, once per token | several tokens from one line, blank lines, ends of texts |
| Parser | `lib/parse.cpp`, `lib/Operator.cpp` | pointers into the tokens | `lemniParse`, once per expression | regrouping of operators, lists over lines, reads behind the tokens |
| Modules | `lib/Module.cpp` | aliases, registered, mapped and owned modules | alias, register, load (recursive through imports) | failed and circular loads, several names for one file |
| Scopes | `lib/Scope.cpp` | a table of names and a parent | find, set | shadowing, bindings refused silently |
| Typechecker | `lib/typecheck.cpp`, `lib/TypedExpr.hpp` | scope, type set, bindings of a partial evaluation | one method per expression class; `lemniTypecheckEval` | calls with some of their arguments, given, skipped or dropped; references to what is bound |
| Evaluator | `lib/eval.cpp` | per state: the value stored for each binding and module; per call: its frame | one method per class of typed expression | who frees what when an expression half way fails, references that outlive what they refer to, modules evaluated in a state of their own |
| Values | `lib/Value.cpp`, `lib/Value.hpp` | values on the heap, owned by frames, states and callers | operators, copies, calls, destructors | dispatch over pairs of kinds and widths, width of results, null results, modules owned twice |
| Numbers, strings | `lib/A*.cpp`, `Str.h`, `Interop.*` | external libraries | wrappers | none of its own |
| Code generation | `lib/compile.cpp`, `lib/mangle.cpp` | LLVM or GCC JIT | one method per expression class | external |
| REPL | `repl/` | a map of modules, an evaluation state, the values shown for an input | enter, typecheck all, evaluate and show each, free | the order in which values are copied, shown and freed; inputs that fail half way |

How they interact: the module loader calls the lexer until no text remains, the
parser until no token remains, then the typechecker on each expression; the
typechecker calls the loader back on an import and keeps names in scopes; type
rules are asked by the typechecker, which gets its types from the type set; the
memory checker uses regions. The REPL typechecks an input, evaluates its expressions
one by one in a state that lasts for the session, and shows and frees the values; the
evaluator evaluates the expressions of an imported module in a state of their own and
calls functions of the host. All calls are synchronous.

What makes each correct: lists and links of regions that are live agree, and nothing is
freed twice; sizes are what expressions need, whatever was checked before; the index of
types leads to the type; the type of a block is the join of its returns; no character is
lost, operands keep their order and every call makes progress; only finished modules are
found and never replaced; names keep their meaning; an argument reaches its parameter;
what is shown is what the source says, and every value is freed exactly once.

## Modules

| Module | Models | State and actions against the code |
|---|---|---|
| `RegionContract` | what `Region.h` promises | which region a storage lives in; open, close, allocate, move |
| `Regions` | `Region.cpp`, operations | one variable per C++ field, addresses as elements of `Region` and `Storage`; one action per function; `fault` when a freed object is followed |
| `RegionSizes` | `Region.cpp`, queries | recursive functions over the state of `Regions`, in arithmetic modulo 2^`Bits` |
| `MemCheck` | `memcheck.cpp` | the C++ call stack as a variable, one frame per expression; the actions are the pieces of `memcheck` between two calls |
| `TypeSet` | numeric types of the type set | the call stack again; a request looks up, enters an info, asks for its parts, interns |
| `TypeRules` | castable, promote, result types | operators over types `[kind, bits]`; a machine that promotes the returns of a block one by one |
| `ValueOps` | `Value.cpp`, operators; `eval.cpp` 85-127 | a value is `[kind, bits, n]`, its C++ class and number; an operator answers the set of values the code may return, uninitialised memory and crashes included; one action per operator applied by the evaluator, and one for its return to the enclosing expression |
| `Lexer` | `lex.cpp` | one variable per field of the state, one action per way a call can go |
| `Parser` | `parse.cpp` | one operator per parse function, answering what the C++ function answers; what `parseInner` answers is a function of the position, each value from those further on (`inner`), since no call of it starts where its caller did; an expression also carries its leaves, the names and literals in it from left to right; the members behind a value are a loop, where the code has `parseLeading` and `parseAccess` call each other; the loop that calls `lemniParse` as actions |
| `ParserResults` | `parse.cpp` | what an answered expression holds, read through its parts: precedence |
| `Calls` | `typecheck.cpp`, `TypedExpr.hpp` | a typed expression is a record of its class, type and parts; one operator per `typecheck` and per `partialEval`; the actions are calls of `lemniTypecheckEval` on what the last one answered |
| `Session` | `eval.cpp`, values of `Value.cpp/.hpp`, `repl/main.cpp` | values by address, what states have stored, frames of calls; one operator per `eval`, `call`, copy and destructor; the actions enter an input, evaluate and show its next expression, free and prompt |
| `Modules` | `Module.cpp`, imports of `typecheck.cpp` | the maps and the stack of loads under way |
| `Scope` | `Scope.cpp` as the typechecker uses it | the chain of open scopes |
| `RegionsProofs`, `MemCheckProofs`, `TypeSetProofs`, `LexerProofs`, `ParserProofs`, `ValueOpsProofs`, `ModulesProofs`, `ScopeProofs` | | theorems about `Regions` and its refinement of `RegionContract`, `RegionSizes`, `MemCheck`, `TypeSet`, `Lexer`, `Parser`, `TypeRules` and `ValueOps`, `Modules` and `Scope` |

`MC*` modules hold the values of the constants for TLC. Definitions whose comment
calls them a slip are plausible mistakes in the definition that follows them;
no action uses them, they are there to show that the properties would notice.

How they compose:

* `MemCheck` extends `RegionSizes` and so `Regions`: the checker's actions call the
  actions of `Regions`, and its answers are the queries. `CheckerIsAClient` proves that
  this makes it one of the clients of `Regions`.
* `Regions` under an orderly client implements `RegionContract`: a refinement mapping
  that hides the lists and forgets what freed memory contains.
* `Session` extends `Calls`: what is entered is typechecked by the operators of the one
  and evaluated by those of the other, with the operators on values of `ValueOps` and the
  types of `TypeRules`, each an instance.
* `ValueOps` extends `TypeRules`: values are compared with the types they were given.
* `MCInterpreter` puts `Calls`, `Session`, `TypeSet` and `Scope` side by side. They
  share no state: from a common initial state one of them runs and the others stand still.
  `MCSourceRules` does the same with `Parser`, `TypeRules` and `ValueOps`.

Evaluation of an expression is one step of `Session`: it runs to its end before anything
else happens, and how it ends (a value, an error, the end of the program, a crash) and
what it leaves in memory are computed by the operators. A binding of a call is looked up
through the frames around it, so a frame that has gone is seen to be read.
Memory that was freed may still read as it did, or the program crashes; which of the two
is the variable `lasting`, chosen once for a session, since the properties must hold
with both.

## Runs

| Run | Question | Bounds, and why they are enough |
|---|---|---|
| `regions_any` | Can any client break the lists of a live region, close a circle of children, or free twice? | 3 region and 2 storage addresses: a parent, a child and a region at a reused address; two storages make orders in a list |
| `regions_orderly` | Is a client that destroys children first and empties child regions safe, does it get what the contract says, do the queries count right? | the same addresses, three sizes one of which wraps round at the word of 4 bits |
| `regions_freed` | (violated) Does a storage go with the region that owns it? | a region, a child and a storage |
| `typeset_int` | (violated) Does every request return? | 5 bits, 12 frames |
| `memcheck` | Are sizes exact, regions destroyed once? | 2 states, 4 regions (a pool and one function's three, or two functions' without), 2 storages, a function, its definition, one without storage, one in error and an expression |
| `lexer` | Is the text cut into tokens without loss, and does lexing end? | every text of 8 characters over 3 classes, of 6 over 4, of 4 over 12: two levels opened and closed at once, every pair of adjacent tokens |
| `source_rules` | Are operands kept in order, does every call of the parser consume, and does it read outside its tokens at loose ends only? Has a block of numbers the join of its returns as type, in any order but with a sized ratio behind a sized real? Are casts of known size lossless? Are expressions computed exactly, and do they stay within the types they were given? | every source of 6 tokens over 7, of 5 over 12 and of 7 over the 6 of parameter lists; bit counts on both sides of every threshold in the code, and a ratio of 2 bits, which promotion halves away, blocks of three returns, so that one is promoted from what a pair without a type left; the limits of every width, with 2 bits for 16 so that 16, 32, 64 and 128 are 2, 4, 8 and 16; two operators, so that each result is an operand again |
| `parser_precedence` | (violated) Is the tighter operator always below the looser? | 7 tokens: three operators |
| `modules` | Are only finished modules found, mappings stable, and do loads without circles return? | 2 files with 2 imports each, a name that is no file, one alias, 2 modules; 4 nested loads |
| `modules_circle` | (violated) Does every load return? | the same with one import each |
| `interpreter` | Does a function given some arguments keep the rest? Are sessions survived, values shown right and freed once, stored values kept? Does the index of types survive nested requests, and do requests come back? Is a name bound at most once on the way up? | calls: three in a row with any arguments, on a function of the host of 3 parameters and definitions of 3 and 4, so that one call is made on the answer of the answer; sessions: 3 inputs out of 25, so that an input follows both an error and a success, over files that are plain, import, import the host's module or fail; types: bit counts modulo 8, so that some towers wrap round to 0 and end, and 6 frames, so that others overflow; names: 3 names, 4 scopes, 5 bindings |
| `calls_skipped` | (violated) Does every parameter that is given no argument remain? | two calls |

`CHECK_DEADLOCK FALSE` is set where the system stops: at the end of a text, after
an overflow of the stack, a crash or a fault, at the end of a program, or when a bound is
reached.

### What the properties of the interpreter leave aside

The inputs of `interpreter` hold cases the program does not survive, and the model says
so: those sessions end in `phase = "crashed"`. `OrderlySessionsLive` states what holds of
all the others. `Orderly` is defined on the source, so that a reader can tell the two
apart; it excludes

* files that import, or whose expressions are not `Straight` (a module that a value owns
  beside the map is destroyed with it, `lib/Value.cpp:2420`; a file that fails gives no
  value, `lib/eval.cpp:483`),
* definitions without parameters, which have no type to show (`repl/main.cpp:141`),
* comparisons and operators that truth values do not have, whose result is null,
* calls with fewer arguments than parameters (`lib/typecheck.cpp:906`), with constant and
  other arguments mixed (`:944`), and calls of what a call answered (`lib/eval.cpp:529`).

`AnswersTrue` gives `Straight` sources their mean value: truth values, units, tuples,
operators on them, calls of definitions with all their arguments, and calls of
functions of the host whose arguments are all equal, since all go through one buffer
(`lib/Value.hpp:209`). `RefsLead` and `OwnedOnce` are of every session that
still runs, orderly or not. `SuffixGivenKeepsTheRest` is of calls that skip the first
parameters only; for the others `ArgumentsNeverMisplaced` holds, and `calls_skipped`
shows what is lost. `FaultsOnlyAtLooseEnds` names in the same way the ends of the
source at which the parser reads outside its tokens or through a null pointer.
`OperandsInOrder` has two premises. With two commas or more the elements of a list are
rotated (`lib/parse.cpp:541`). And no name or literal comes right behind
a comment: the lexer reads a line comment up to the end of its line
(`lib/lex.cpp:213-222`), so what follows one is layout or the end. `parseFnDef` relies
on it: it steps over the token its body stopped at (`lib/parse.cpp:258-259`), and that token may be
the one behind a comment. Were it a name, as in `id ( ) = id COMMENT id`, it would be
lost.

### What the other properties leave aside

The models take these steps like any other; the property that is nearest to them holds
because its premise names them, and is not to be read as saying that they go well.

* `LevelsSpellTheLine` is of well indented texts, without quotes and blank lines: a line that closes levels and opens one,
  or one that differs from its level in the last character only (`lib/lex.cpp:337`), is outside.
* `LocationsTrue` is of texts without digits, brackets, quotes and blank lines, where the
  location counts something else (`lib/lex.cpp:264`).
* `IntegersExactOrWrapped` excludes the pairs of widths that are read through a wrong cast
  (`lib/Value.cpp:709`).
* `NothingShadowed` and `MeaningsStay` are of the scope. That the typechecker goes on when the
  scope refuses a name (`lib/typecheck.cpp:1377`) is seen by neither.
* `StoredStay` is of the stored value, not of the module it may be made of, which another
  owner can destroy (`lib/Value.cpp:2420`).
* In `memcheck` the four regions are spent before a function that was in error is checked
  again; that the sizes and the remembered regions survive this is proved, not run
  (`MemCheckProofs`).

### What the violated runs show

* `regions_freed`: `~LemniRegionT` frees the storages it lists only if the region has no
  parent (`lib/Region.hpp:30`); `Region.h:132` has a storage deallocated with the region
  that owns it. `FreedByOwnerOnly` is what code and header agree on: a storage goes with
  nobody else, so what was preserved or transferred survives. `RegionContract` takes the
  header's side, and an orderly client keeps to it by moving the storages out of a child
  region before it destroys it.
* `typeset_int`: `lemniTypeSetGetInt(n)` asks for the ratio of 2n bits, which asks
  for the integer of n bits, which is not in its map yet (`lib/Type.cpp:612`).
* `parser_precedence`: `parseBinop` compares its operator with the root of its
  right operand only, so `a ^ b * c + d` gives `^` the operand `b * c`
  (`lib/parse.cpp:430`).
* `calls_skipped`: the parameters left are looked for among as many of the first
  parameters as are left (`lib/typecheck.cpp:677`). A definition of three given its first
  argument answers a function of the second alone, and the third can be given by nobody;
  `typecheck.h:84` allows fewer arguments than parameters.
* `modules_circle`: a module is mapped only after it is typechecked, so circular
  imports never find it (`lib/Module.cpp:208`).

### Differences met while modelling, not run

The models say what the code does in each of these; the headers say otherwise.

* `lemniRegionRawSize` adds padded sizes (`lib/Region.cpp:77`), where `Region.h:92` has
  the raw or packed size: a storage of 5 bytes aligned to 4 counts 8.
  `QueriesCountEveryStorage` claims neither sum: the raw size is the packed size where no
  storage is padded, and between the packed and the padded size elsewhere, which is so
  whichever of the two is meant.
* `lemniRegionChild` compares its index with the number of storages
  (`lib/Region.cpp:51`, `Region.h:71`).
* Regions opened for parameters and bodies outlive the memory check state
  (`lib/memcheck.cpp:28`).
* `Nat` of any precision is castable to `Nat8` (`lib/Type.cpp:33`, `Type.h:269`),
  and a natural made signed grows by one bit only (`lib/Type.cpp:1014`, `Type.h:596`).
* Sums, differences and products of two integers of 16 or 32 bits are naturals
  (`lib/Value.cpp:141`), where the typechecker says integer. An integer of 16 or 32 bits
  beside one of arbitrary precision is read as 64 bits, past its own
  (`lib/Value.cpp:690`, `:734`), and one of 64 beside one of 32 as 32 (`:709`). A ratio
  with an integer on its right follows a null pointer (`lib/Value.cpp:1833`).
  `IntegersExactOrWrapped` says what holds outside these cases.
* `promoteReal` asks for an integer where a ratio is meant (`lib/Type.cpp:960`), so a
  sized real promoted with a sized ratio has no type, while the ratio promoted with the
  real is a real. The type of a block that returns both depends on their order, and
  a return behind them is promoted from a null pointer (`lib/typecheck.cpp:1341`).
  `RatioBehindReal` names these blocks by what they return, and `BlockTypeIsJoin` says that
  every other block of numbers has a type, of the same kind in any order. What a block
  with `RatioBehindReal` has is asserted by no property.
* The promotion of a ratio beside a wider natural goes on with half the ratio's bits
  (`lib/Type.cpp:912`); repeated in a block the half has no bits left, and such a ratio is
  taken for one of any precision and kept, with its one bit. `BlockTypeIsJoin` allows for
  it: the plain statement failed its proof, and TLC refutes it with returns of a ratio of 2 bits, a natural of 8 and one of any precision.
* A queued token carries another location than the one announced
  (`lib/lex.cpp:246`, `lex.h:92`).
* Operators of equal precedence group from the right (`lib/parse.cpp:430`), and the
  body of the README's example function is a parse error (`lib/parse.cpp:193`).
* `README.md:60` of the repository has `-i` evaluate a file before prompting; the file
  is only typechecked (`repl/main.cpp:225`).
* A call with some constant arguments drops the others (`lib/typecheck.cpp:944`), every
  Bool argument of a function of the host is read from one `thread_local` buffer, which
  holds the last (`lib/Value.hpp:209`), and a module is owned by the map and by its value
  (`lib/Value.cpp:2420`). The properties above state what holds beside these.
* `a.x` finds the module of `a.y` (`lib/Module.cpp:148`), and a failed load leaves
  its module to nobody (`lib/Module.cpp:210`).

## Fairness

`LexingEnds` assumes WF of the lexer's next step (`LoopSpec`): `lexAll` and the module
loader call `lemniLex` in a loop until it answers an end or an error.
`GroundedRequestsReturn` (`AllSpec`), `EveryRequestReturns` (`SetSpec`) and `EveryLoadReturns`,
`LoadReturnsAHandle` (`LoadSpec`) assume WF of the steps of a call under way, which are those of a
synchronous C++ function: it runs until it returns. Nothing makes a client, a host or a user
call again, so no fairness is assumed of them.

## Proofs

Eight modules hold theorems, for every value of the constants; the assumptions are those
named in the modules they extend, `NULL` being no address among them. The inductive
invariants were checked by TLC, as invariants of the runs, before they were proved.

**`RegionsProofs`**: for every client, `IInv`, the conjunction of `TypeOK`, `ListsOwned` and
`ChildrenLinked`, is inductive. `TypeOK` alone is not enough for the other two: that
erasing a storage from a list removes its only occurrence needs `NoRepeats`, that a new
region's address is in no list of a live region needs that lists hold live objects
only, and that is kept by the destruction of a region because whoever lists it is its
parent. `FreedByOwnerOnly` follows, and `AlwaysAcyclic`: a set of regions each listed by
another of the set can neither gain the new region, which lists nobody, nor be made by
lists that shrink.

For an orderly client, `NoOrphans` is inductive beside `IInv`
(`OrderlyInvariant`): a region goes with no children and no storages of others, so what
names it goes too. Then no link dangles (`NeverFaults`), and every step maps to a step
of `RegionContract` or to a stutter (`PromisesKept`).

Of `RegionSizes`, for every client, any width of a size and any alignments that
`std::bit_ceil` is defined for (`AlignmentsAssumption`), `SizesInvariant` adds two conjuncts to
`IInv`: every non-empty set of live regions has one that lists none of the set as a child
(`Founded`), so that the least set with a region and the children of its members splits into the
region and the sets below its children, which have nothing in common; and every storage keeps
the layout of a request (`Laid`), so sizes and alignments are numbers of the right width. Then
the queries sum over what the lists lead to, whatever the client did; for an orderly client that
is what names the region as owner or as parent further up (`OrderlyReach`), and so the queries
count it all (`QueriesCount`); how the raw size lies between the packed and the padded size
follows from the sum of the greater numbers being the greater (`RawCounts`). In
every such state the argument has three parts. Each loop over a list is a fold: a sum of the
values of distinct elements modulo 2^`Bits`, written as the cardinality of a set of marks,
since sums over sets are folds themselves. Rounding the running sum up to a power of two after each
storage is adding each storage rounded up by itself, because wrapping round keeps multiples of
the alignment. And the recursion over children is a function that satisfies its own
equation: the closed form satisfies it, and two functions that do agree everywhere below a
region, because a region where they differ would lead down to a child where they differ, and
so to a set of regions that `Founded` excludes. A query in between that meets the undefined
`std::bit_ceil` is set aside by `SizeDefined`, as in the run.

**`MemCheckProofs`**: for any expressions, addresses and clients, `MInv` is inductive
(`CheckerInvariant`): the regions a check under way charges or has opened are live, those
without a parent are the client's or those of one state, and a state that may be used has
a pool that is open. The frames have to be part of it, since a region is opened in one
step and charged in another, with whole checks between them; that pools are closed and
states destroyed only when nothing runs keeps it. `CheckerNeverFaults` and
`CheckerForgetsNoRoot` follow. `CheckerIsAClient` shows that `MemCheckSpec` implies `Spec` of
`Regions`, because an expression is charged what is a request (`ChargeAssumption`): the
theorems about every client of the regions hold while expressions are checked.

What a check must answer, `Needs` and `Refused`, is a recursion over expressions. That these
are finite trees is `GroundedAssumption`: the parser and the typechecker build an expression
from expressions that exist already. A recursion that looks at the parts of an expression only
then has a solution (`RecursionSolved`): solutions on sets closed under parts agree, their
union is one, and were it not one everywhere, the rest would hold an expression none of whose
parts are in it. `CheckerSizes` is the strengthening that makes the sizes inductive
(`SizesChecked`). It has a conjunct for each frame: how far the function has come and that
nothing checked so far was refused (`Counts`), its regions in their places below what it
charges (`Links`), and what they hold (`Amount`): what the parameters checked so far need,
then the body, apart from what the call it waits for has charged by now, which is everything
below the regions that call has opened, or the one storage it is about to answer with.
Frame by frame the region being charged lies below that of every caller (`Waiting`), so a
storage is counted by all of them at once. And it has one for what is remembered: the region
holds what the function needs, and nothing under way charges it or anything below it
(`Finished`), which would fail if a region were remembered before its check has ended or
after one that failed. `AnswersAlwaysExact` and `KnownAlwaysSized` follow, with the sums of
`RegionsProofs` for the size that is answered.

**`TypeSetProofs`**: for any width of the bit counts and depth of the stack,
`IndexLeadsHome` and `FoundComplete`. The strengthening says of every request under way
that it finds the info it entered, that the parts it was given can be found, and that the
next one in asks for the part it waits for.

**`LexerProofs`**: for every text over the classes of characters, `IInv` is inductive
(`LexerInvariant`): the tokens answered, then those queued, then the remainder come in the
order of the text and touch nothing twice; between them is whitespace; a token
waits in the queue only while the character before the remainder is no newline; the counted
position is that of the text as long as no
token of unrecorded width was met. `CharactersOnce` alone is not inductive: that a character is
in one token only follows from the order of all tokens, and that none is lost from what lies
between them. `LoaderComplete` and `LocationsRight` follow, the latter with the number of
newlines before a position, counted as a set. `LevelsAlwaysSpell` needs more, `LevelsHeld`: in
a well indented text, what the first 1, 2, ... of the levels held spell together are the
open levels of the text, which are defined without the lexer, as the leading whitespace of a line that
every later one starts with; the last is the line being read. They form a chain
of prefixes, so a line that goes back to one of them closes those behind it, and a line that
deepens all opens what is left of its whitespace: the comparison loop finds which
level it is. `ClearIndents` answers before it reads the line, so between it and the next token
the levels held are those of the line to come. Three loops of the code end where they should by
descent: the end of a string, the match of the open levels and the flattening of their
slices are recursive functions, and a
least position that contradicts the claim is led back to a smaller one, since the
induction theorems of the library cannot be used.

**`ParserProofs`**: for every sequence of tokens, of any length. What `parseInner` promises of
its answer is one predicate (`Answered`): it resumes and stops inside the tokens and behind
its first token; it reads behind the last token only if that is a SPACE or a
NEWLINE; and if it answers no expression, it stopped at the first token that is no comment, which
closes a group or is the end. The last part is what makes it inductive: a hole in a list, which
`parseFnDef` later reads as a null parameter, comes from a `parseInner` that was started
behind a comma, and there it must have stopped at the `)`, so nothing but spaces and comments lies
between the two. Each parse function keeps the promise if `parseInner` keeps it further on
(`ParenInnerSound` to `ParseInnerAnswered`), and so it is kept everywhere
(`InnerAnswers`): of the positions where it is not, the one nearest the end cannot exist. The lines of a list and the
members behind a value are recursive functions of their own, treated in the same way.
`FaultsAtLooseEnds` and `CallsConsume` follow for the loop that calls `lemniParse`.

`OperandsStayInOrder` needs a second promise of the same shape (`Read`): the leaves of what
is answered are the names and literals between the position and where the answer resumes, and it
stops at no name or literal. Neither half is inductive alone: a caller
that steps over the token it stopped at loses nothing only because that token is no operand. Nor is
it enough to speak of an expression's own leaves, because `parseBinop`, `parseUnaryOp` and
`parseApplication` take their operand apart: `Whole` adds that the leaves of its parts, one after
another, are its own, so the regrouping is the associativity of
concatenation. Concatenation and `FlattenSeq` have few facts in the library; the
first part of the proof states what is needed of them, sums of leaves from the left as a recursive
function (`Sums`). `InnerReads` is again the descent to the position nearest the end,
and `Kept` is inductive for the loop together with the invariant of the first promise.

**`ValueOpsProofs`**: of `TypeRules`, `BlockInv` says that the type of a block so far exists,
has a kind that was returned and none higher was, and any precision if one of them had,
unless a sized ratio was returned behind a sized real. Two types promote to none in that case
only (`PromotionDefined`), and what promoted to a sized real came from returns with a real
among them and no number of any precision (`BehindSizedReal`), so the exception can be stated on
the returns and needs no premise on the result. Then the type of a block is the join of its
returns, however many there are and in whatever other order (`BlockTypes`). `CastsLossless` is the table of casts, by cases over the kinds, for every bit
count. Of `ValueOps`, `ValueInv` is inductive (`ValuesFormed`): every value has a class
of `Value.hpp` and a number that fits its width, and the value so far is one of the outcomes of
the last operator on its operands. The width is needed to show that nothing wraps: a sum
or a product of two naturals fits twice the wider width because both operands fit it
(`NaturalsStayExact`), for every `Unit`, so with the 16 bits of the program too.
`IntegersStayExact` and `ArbitraryPrecisionStays` follow for every pair of kinds and
widths. Powers of two have no arithmetic in the provers: 2 ^ (a + b) = 2 ^ a * 2 ^ b is
proved by counting subsets.

**`ModulesProofs`**: for any files, names, aliases and depth, a module that can be found is
the host's own or finished (`FoundAlwaysFinished`). `MappingsNeverReplaced` assumes
`DistinctKeys`: no two files have the same key, which is the path without its extension
(`lib/Module.cpp:148`); two files `a.x` and `a.y` do replace one another. The argument is
that a load that typechecks a file waits for an import that could not be found when it was
asked for, while all imports before it could; were the same file loaded once more
further in and ended, that import would have been found, against what its load stands for.

**`ScopeProofs`**: for any names and depth a name is bound at most once on the way up
(`NeverShadowed`), from an invariant that adds the shape of the chain, and what a name
means in an open scope never changes (`MeaningsNeverChange`): the nearest binding is the
only one, and only the innermost scope changes.

Only model-checked: everything about `Calls` and `Session`, which walk expressions
by recursive operators over their structure, and all liveness. Both are out of the
prover's reach.

## Not modelled

* Numbers of any precision and strings: wrappers around GMP, MPFR and ARB without state of
  their own. Ratios and reals have a width but no number in `ValueOps`.
* Literals of numbers in `Calls` and `Session`: the request for their type does not return
  (`typeset_int`), so no program gets past one. Parameters with a type, branches, blocks and
  returns are classes of expressions that the parser never makes.
* Sums, products and functions in `TypeSet`: they are entered the same way as the numeric
  types. Macros are read by the parser and expanded nowhere.
* Code generation: its state is that of LLVM or GCC JIT, and most visitors are unimplemented.
* Of the REPL: files and expressions given on the command line, highlighting, the history.
* The build, type lists and macros of the preprocessor: nothing happens at run time.
* That an allocation can fail is left out throughout. Wording of messages is abstracted;
  the position an error points at is not.

## What is left

1. Sums, products and function types as requests of `TypeSet`, beside the numeric ones.
2. `Modules` and `Session` share the files they import; the map of modules could be the
   state of both, so that a session's imports use the map `Modules` keeps.
3. Proofs: the properties of `Calls` and `Session`, for which expressions would have to be
   numbered nodes instead of nested records, so that a recursion over them is one over numbers.

# A TLA+ verification project for the A7 compiler

A7 is a small language without recursion, compiled by a Python program
(`src/a7`, about 28,500 lines) to Zig source and, through the Zig toolchain, to
native executables. This directory holds TLA+ models of the compiler, the TLC
runs that check them, and theorems about them that TLAPS checks.

## 1. Inventory

Sizes are lines of code. "State" is what a component keeps between its steps.

| Component | Source | State | Operations | Hard behaviour | What makes it correct |
| --- | --- | --- | --- | --- | --- |
| Module resolver | `module_resolver.py` (526) | cache `loaded_modules`, `loading_stack`, work list of enter/exit events, module table | `load_module`, `load_program_dependencies`, `process_imports`, `get_module`, `topological_sort` | failure in the middle of a load, reuse after a failure, aliases of one file, cycles, diamonds | the cache is closed under imports, the stack is unwound, the verdict is that of the import graph, the merge order is breadth first |
| Module table | `symbol_table.py` 364-498 | path to module, bindings | register, alias, using, named imports | names keyed by spelling and by file | a binding leads to a loaded module |
| Compilation pipeline | `compile.py` (1374) | `CompilationResult`, the file system | tokenize, parse, load imports, analyse, validate destinations, generate, write output, write report | concurrent invocations, path aliases, failing writes, kills | inputs survive, a refusal leaves no trace, the artifact list is honest, modes agree |
| Command line, native builds | `cli.py` (326) | temporary directory, destination, process status | option checks, `check`, `build`, `run`, `doctor` | Zig failure, failing system calls after the installation, kills | atomic installation, no temporary directory left, a status that tells what happened |
| Tokenizer, parser | `tokens.py`, `parser.py`, `ast_nodes.py` (4443) | position; work lists of suspended frames | tokens, declarations, statements, expressions, types | nesting limits, literals against blocks, longest matches, line ends | every character is accounted for; a tree comes back as the tree that was written |
| Scopes | `symbol_table.py`, `name_resolution.py`, `semantic_context.py` (1592) | scope tree and stack, symbols, postponed functions | enter/exit scope, define, lookup, predeclaration, captures | two passes that must agree without a link, functions resolved late | a name means the declaration the language's rule selects |
| Type system | `types.py`, `cast_classifier.py`, `exact_constants.py`, `layout.py` (2132) | none | assignability, casts, folding, layout | widths, rounding, types inside types | classes of casts are sound; folding is exact; offsets fit together |
| Type checker | `type_checker.py` (5730) | node types and constants, generic bindings, scope positions | declarations, expressions, generics, matches | order of evaluation, notes on nodes read later, instances of instances | order independent; every instance is judged |
| Semantic validator | `semantic_validator.py` (1794) | call edges, control-flow summaries | return paths, unreachable code, loop, `defer`, `fall` rules, recursion ban | function values, nested functions, labels | accepted functions return on every path; the call graph has no cycle |
| Safety proof | `safety.py`, `readonly_requirements.py` (3298) | facts per variable and path, loop and defer frames | fact flow through branches, loops, calls, deletion | joins, kills of facts, aliases | no accepted program reads nil, a deleted value or out of range |
| AST preprocessor, Zig backend | `ast_preprocessor.py`, `backends/` (4.7k) | rename maps and their snapshots, hoisted names, pending discards | lowering, emission | Zig forbids shadowing, unused locals and unwritten `var`s | meaning is kept, and Zig accepts the text |
| Standard library registry | `stdlib/` (131) | none | paths, canonical names | aliases | one identity per module |
| Formatters, errors | `formatters/`, `errors.py` (2.6k) | none | rendering | | |
| Scripts, site, examples, bench | | none | | | |

**Interactions.** `cli.main` parses options and constructs one `A7Compiler`;
`workflow` does the same for `check`, `build` and `run`, captures its output and
goes on with Zig. `compile_file_detailed` runs the stages in order, each on the
results of the one before; it creates one `ModuleResolver` per call, merges the
loaded modules into one program, and gives that program to name resolution, the
type checker, the validator and the safety pass, which share the symbol table,
the map of node types and notes they leave on the nodes of the tree (resolved
uses, captures, exact constants, cast decisions); the backend reads those.
Nothing runs concurrently inside a process; what invocations share is the file
system. Nothing is persisted but artifacts.

The hazards, one by one and at their lines, are in `PROJECT.json`, with the
properties that would show each of them going wrong.

## 2. Plan

In the order of writing; all but the last two steps are done.

1. `ModuleResolver` (with `ModuleResolverProofs` and `ModuleResolverResults`): the import graph decides which program is compiled.
2. `Compile`: the stages of one invocation and what it does to the disk.
3. `Native`, which extends `Compile`, with the abstract `AtomicInstall`.
4. `RecursionBan` and `CallGraph`: call edges, aliases, callbacks, function values
   against executions; the components and the cycles reported.
5. `ControlFlow`: the return, unreachable-code, `defer` and `fall` rules against an
   execution semantics of small statement trees.
6. `SafetyProof`, which extends `ControlFlow`: the fact analysis of a function
   against its executions on values.
7. `Tokenizer`, `Parser`, with `Spelling` as the reference grammar.
8. `Scopes`: both passes over the scopes against the lexical rule.
9. `ExactConstants` and `ConstantFolding`, `Layouts`, `Casts`, `Matches`, `Generics`:
   parts of the type checker, each against a reference definition.
10. `EmittedNames`: the names of the emitted Zig, read by Zig's own rules.
11. Proofs (section 5): done for the resolver's cache, stack and results, for `Compile`,
    for `Native`, for `Casts`, for `CallGraph`, for `Matches` and for `ControlFlow`. Next: `Scopes`.
12. Models still missing: the summaries of callees and fields as places in the
    safety proof; the merging of modules; evaluation order in the backend.

Machines of stages that do not interact within a step are composed in one run, side by
side: `MCValidator` (`CallGraph`, `RecursionBan`, `ControlFlow`), `MCPipeline`
(`Tokenizer` with `Parser`, `SafetyProof`, `EmittedNames`) and `MCChecker` (`Scopes`,
`ConstantFolding`, `Layouts`, `Casts`, `Matches`, `Generics`). A behaviour of such a
composition runs one machine on an input of its own, and the others are at rest in a
state that they end in.

## 3. The modules and the code

`PROJECT.json` maps each definition to the lines it stands for. What follows says how
to read the modules.

### ModuleResolver

One resolver object. `loaded[k]` is 0, or the stamp at which module `k` entered
`loaded_modules` (the dictionary's insertion order); `deps[k]` its imports;
`table` the module table; `stack` is `loading_stack`; `pending` is the work list
of enter and exit events of the running `load_module` (its head is the end of
the Python list). Each iteration of the loop is one action: `LoadVirtualModule`,
`SkipCached`, `ReadModule`, `ExitModule`, or `FailEvent`, which is the error path
through the `except BaseException` and `finally` clauses. `StartProgram`,
`VisitImport`, `CollectModule` and `FinishProgram` are the loop of
`load_program_dependencies` around it, `StartModule` and `FinishModule` a direct
call. Files have contents (`ok` with a list of imports, or missing, unreadable,
badly tokenized, badly parsed); `Candidates` is the table of the paths that a
spelling is looked up at. `Edit` lets somebody change a file at any time;
`pristine` marks an operation that began on a new resolver and saw no edit: the
properties about results are claimed for those, the properties about the cache
and the stack for all.

`clock`, `rank`, `pristine`, `edits` and `calls` are history or bounds. Alias,
`using` and named imports are one binding per spelling. Project files named
like a module of the standard library are left out of the passing run: such a file
registers under the standard module's table name, which is what the run
`reserved_names` shows.

### Compile

`link`, `entry` and `data` are the file system: names, symbolic links, inodes
and contents. `job[j]` is an invocation. Its steps are the pieces of
`compile_file_detailed` between accesses to the disk: `ReadEntry`, `Frontend`,
`LoadImports`, `Analyze`, `CheckPaths`, `Generate`, `OpenOutput`, `WriteOutput`,
`OpenDoc`, `WriteDoc`, `Emit`; `Return` is `_finish_with_failure` and the normal
return, with the artifact list of `to_json_payload`. Opening truncates, writing
completes: a kill or a failing call in between leaves a partial file. A source
text is a model value with the first stage that rejects it.

### Native and AtomicInstall

`Native` extends `Compile` with the workflow of `cli.py`: `step`, `status` and
`temp` are the position in `workflow`, the process status, and the existing
temporary directories. `os.replace` changes a name, not an inode, and replaces
a symbolic link rather than following it. `AtomicInstall` is the promise of
`build`; `Promise` in `Native` is the refinement mapping: the holder of a
destination is read from the file system (`Torn` for a partial file, which no
abstract step produces), the phase of a build from its progress and from
whether its executable has been installed.

The promise is about the names in `Executables`: those that neither a source nor the
output of a compilation stands for when the invocations start (`InitiallyAliased`;
the proofs show that none comes to). A compilation writes through a link, and another
invocation's `a7 -o` or an editor may do so at any time: of the other names
`build` promises nothing, and `InstallElsewhere` is an installation there.

### Tokenizer, Parser and Spelling

`Tokenizer` has one action for each branch of the loop of `tokenize()`: blanks and
comments, names, numbers, characters, strings, operators, terminators, errors. A source
is a string of ASCII characters, with one character each for the letters up to and
beyond code point 255.

`Parser` is `parse_a7`. The code suspends frames on work lists (`_statement_work`,
`_expression_work`); `work` is that list, and a frame is what it still has to do: tokens
to consume, frames to wait for, choices to make by looking ahead, a node to build.
The rules give, for each frame and choice, what it is at the tokens ahead; each is
mapped to the method it stands for. Header mode, which decides whether `Name {` is a
struct literal, and the depth that `MaxNesting` limits are carried by the frames. `Spelling` writes trees as the grammar
and the table of precedences of `docs/SPEC.md` have them; it shares nothing with the parser.

### Scopes

Both passes walk the tree on a stack of pending work (`work`, of which `scopeStack` is
the scopes entered). The first (`name_resolution.py`) predeclares the file, names
locals, types, captures and branches, and resumes nested functions at the very end with
the stack of their declaration (`Postpone`, `ResumeFunction`). The second
(`type_checker.py`) orders the file's values by their dependencies (`OrderValue`,
`ValueOrdered`) and finds each scope by entering the next child of the right name
(`EnterMatchingScope`, `reuse`): there is no link from a node to its scope. `Meaning` and its
neighbours define what a name means by the text alone.

### ExactConstants and ConstantFolding

`ExactConstants` is `exact_constants.py`: fractions with a category, the operators on
them, and rounding to the bits of a float format (`IeeeBits`), against the definition of
the nearest float, ties to even. `ConstantFolding` is the walk of the type checker over
a chain of left operands: a link is evaluated with the value of the link below lent to
its node (`Folded`), the largest constant parts keep a value, rejected constants are
reported once and silence what is above. An expression is the sequence of its nodes;
`notes` is what the checker writes on them. `frames` are the generators of
`_expression_work`.

### Layouts

The check that no type stores itself inline (`StartDeclaration` to `GiveUp`, one action
per branch of its stack walk, generic instances expanded by substitution), and
`compute_struct_layouts`: the work list of structs that are ready (`PlaceStruct`), with
the sizes and offsets it gives them. The structs that one placement makes ready come from
a set: `PlaceStruct` appends them in any order.

### Casts

A cast is classified (`Classify`), proved or refused (`Prove`), and emitted as one
conversion (`Emit`). The reference gives Zig's rules for `@as`, `@intCast`,
`@floatCast`, `@intFromFloat` and `@floatFromInt`, and asks them of every pair of types
that the parameters admit. The ranges come from widths (`TwoTo`), so that the proof
holds for all widths; `CastParameters` says what a table of widths and an operand are, and
`Settled` which casts the claim is about.

### Matches

`ReportPattern` and `KeepPattern` are one pattern of a match, looked at in order with
the keys and ranges seen so far; `Judge` is the check of what no case covers. The
reference enumerates the values of the type and, for patterns that are variables, what
they may hold (`Held`). `MatchParameters` says what a match is when its patterns
get here: names of the type, or patterns that compare with an integer.

### Generics

Inference is a stack of pairs of a parameter type and an argument type with the
argument it came from: `BindNil`, `BindUnknown`, `BindFirst`, `BindAgain`,
`BindInstead`, `Conflict` and `Unify` are the branches of `_infer_generic_types`.
`CheckCall` checks the constraints and the arguments, `SkipInstance` and
`CheckInstance` are the walk over the instances that calls make, calls in generic bodies
included. A body is the values that depend on its parameter and the generic calls in it.

### CallGraph

`_report_recursion_cycles` on a given `_function_graph`. Functions are numbers,
which stand for names in sorted order; `Order` is the declaration order.
`NextRoot`, `NextCallee` and `FinishNode` are the loops of Tarjan's algorithm:
an entry of `work` is a node with what its suspended iterator still holds.
`StartReport` builds `component_of`; `NextStart`, `CloseCycle` and `ExtendPath`
are the loop over the declaration order and the greedy search for one cycle.
The initial states range over the call graphs and over what an earlier search
may have reported.

### RecursionBan

How the graphs come about, and what they are for. A body is a sequence of
statements that call, bind, assign and pass functions by name; `Block` stands
for every statement with a body of its own (conditions, loops, `match`, `defer`).
`Accepted` is the validator: `GroupGraph` for the functions of one statement
list, with `Aliases` and `CallbackCalls`, and `ValueGraph` for function values
by type. The collectors are operators on the program. The actions execute an
accepted program: `Enter`, `Return`, `Declare`, `Store`, and `PassBlock`,
`RunBlock` and `LeaveBlock` for a block, which runs any number of times. They
stand for the compiled program, in which a nested function is emitted at file
scope and is visible in its whole block (`backends/zig.py`).

The ban rejects some programs that never recurse, and says so in its
docstrings: it does not track which value reaches which call, and a nested
function counts as part of the function around it. `DirectCallsJudgedExactly`
states where it is exact.

### ControlFlow

A function body is a tree of statements; each holds the lists inside it. `Statements` are
those the parser makes: shaped as their kind asks (`Shaped`) and nested at most `MaxNesting`
deep, which is `Parser.MAX_NESTING_DEPTH`. The checks that recurse on statements
are recursive functions on that set, and walks over contexts go level by level, which is what
the proofs need. `Within` is the validator's walk: every list with the labels of the loops around
it (`loop_stack`), whether it may fall, and whether a match is around it. The
checks are operators named for the methods: `Exits`
(`_statement_exits_current_block`), `UnreachableAt`, `Returns`, `LoopsForever`,
`LeavesDefer`, `Exhaustive`. `Validate` is the set of errors of a function and
the functions nested in it. The actions run a body: a frame is a list under way,
with what it has deferred; `Jump`, `RunDeferred`, `Finish` and `Unwind` take a
`ret`, `break`, `continue` or `fall` to where it leads, running what is deferred
on the way. A function whose only fault is unreachable code runs too, so that
the report itself is checked. A nested function is called where it is declared.

### SafetyProof

A function in the form of `ControlFlow`, whose ordinary statements (`act`) and
conditions (`cond`) now mean something: arithmetic, casts, indexing, slicing, `new`,
`del`, copies of references, reads through them, calls. Facts are a record: `ints` holds
what `ValueFact` knows of an integer (`interval`, `nonzero`, `upper_length_of`),
`lengths` the `known_length` of a slice, `refs` `non_nil` and `allocations`,
and `gone` is `moved_symbols`. `Walk` is the pass under way: its facts, the
obligations it could not discharge, what it approved for the operators that do not
wrap (`add_nonwrap`, `sub_nonwrap`) and refused, and `ExitFrame.continues`.
`ProveStatement`, `ProveList`, `ProveDefers`, `ProveCases` and `ProveLoop` are
`_statement_steps`; `around` is `frames`. `ListPaths` and its neighbours are
`_parameter_effect_summary` as `_loop_effects` uses it: what any path back to the
head of a loop, or out of it, writes and deletes, and how far its counter grows.
`Proof` is the verdict. The actions run an accepted function on every value of its
variables: they extend those of `ControlFlow` with `store` and `fault`.

An integer type has its own small bounds; the pass takes them from a table too.
An allocation is the `new` that made it. Approvals and refusals are kept by node: `Placed` gives
every statement its place in the function. A call writes every global
variable and the argument it borrows, with any value. The verdicts and the
approvals of this model were compared with those of the compiler, its table of
ranges set to the same bounds, on 27,000 of the functions: they agree on all that
reach the pass.

### EmittedNames

The statement walk of the backend for one file-scope function. `renames`, `snapshots`,
`usedNames`, `hoisted` and `unread` are `_rename_map`, `_rename_snapshots`,
`_used_identifiers`, `_hoisted_names` and `_pending_discards`; `todo` is the stack of
suspended generators; `saved` what each running `_visit_function` restores. `Mutated`
and `Shadowing` are the passes that ran before, each with scopes of its own
(`Mutated` knows blocks and loops, `Shadowing` blocks only): the walk meets their
answers. `zig` is the emitted text, reduced to declarations, uses, writes and braces.
A discard is decided when its scope ends; `discarded` collects them. The reference
reads `zig` by Zig's scoping rules (`ReadToken`) and compares what each use refers to with
what A7's scopes say (`Means`). Names that begin with the generator's `__a7_`, constants
whose uses are replaced by their value, and matches that fall through are left out.

## 4. Runs

| Run | States | Bounds | Shows |
| --- | --- | --- | --- |
| `resolver` | 103,507 | 5 files, 2 stdlib spellings, 2 operations, 1 edit | cache, stack, verdict, merge order, bindings, termination |
| `reserved_names` | (violation) | 2 files, no edit | a project file takes the table entry of a standard module |
| `compile` | 1,175,174 | 2 invocations, 10 commands, 12 names, 1 edit, 1 fault | files on disk under concurrency, aliases and faults |
| `native` | 819,740 | 2 invocations, 6 commands, 8 names (3 of executables), 1 edit, 1 fault | sources, temporary directories, status, atomic installation |
| `validator` | 389,166 | call graphs of 4 functions with up to 4 calls; 62,409 programs of 6 functions; 24,880 bodies up to 4 deep | reported cycles; no accepted program recurses; accepted bodies return, reports are real |
| `nested_recursion` | (violation) | 21 programs | nested functions as callbacks, or in one another, recurse |
| `falling_cases` | (violation) | 8 bodies | a match whose cases fall is reported as a missing return |
| `pipeline` | 926,085 | texts of up to 3 characters, rows of up to 5 tokens, trees 2 deep, nesting limit 12; 40,000 functions over integers of 2 or 4 values, arrays of 2, 2 cells; 3,884 functions to emit | every token is where it is said to be, trees come back; nothing risky fails in an accepted function; emitted names |
| `loop_aliases` | (violation) | 6 functions | a loop that reassigns a reference hides a deletion |
| `checker` | 847,166 | 10,096 files for the scopes; 31,000 initializers; layouts of up to 5 types; casts of all types; matches of up to 3 patterns; 16,308 generic calls | scopes and names; folding; layouts; casts; match coverage; generics |
| `else_if_scopes` | (violation) | 32 files | the two passes do not make the same scopes |
| `generic_casts` | (violation) | casts to and between parameters | one conversion for all types is not always one for each |

**Why the bounds are enough.**

*resolver*: cycles of length 1 and 2, a diamond, two
spellings of one file, a directory module, a shadow of a standard module, each
kind of bad file, and a retry after every failure occur; the second operation
meets every cache the first can leave. *compile* and *native*: hazards are
between two parties (two invocations, or one and an editor) or between one
invocation and one fault; each name in the directory is there for one kind of
alias, and each text for one stage that rejects.

*validator*: with four functions two components can hang together, one can hold two
cycles through one function, and the greedy search has a wrong way to go. The bodies of
the programs hold one or two statements each over two callbacks, a function that
hands a callback to a callback, a global, an alias, a hidden name, a nested
function and a block; a longer way to a call is a chain of these. In the bodies, every
kind of statement stands around every kind of list, then around
each other; a labelled break needs two loops, a defer or nested function in a
loop three levels, and the deepest bodies have a loop around such a statement
around a compound one (`MaxNesting` 4). Loops that nothing leaves, or only a break for a loop
further out, stand in blocks and before other statements (`EndlessBodies`). Patterns that the type checker rejects before the
validator runs (redundant ones, a bool match that misses a value) are left out.

*pipeline*: the operators of the language have at most three characters, and
comments and strings get five around their delimiters; `MaxIdentifier`, `MaxNumber` and
`MaxString` (8) and `MaxNesting` (12) scale the compiler's limits down so that both
sides of each are met. Every construct stands in every place of every other, so each pair of
frames suspends and resumes; rows of tokens around a bracket, a header, a list, a range
or a `where` meet the choices that look ahead. In the safety proof each family pairs what
changes a fact (an assignment, a callee, a
branch, a jump, a deferred statement, a trip) with what relies on it. Types of four
values put a literal, a bound, the wrapped result and the length of the array next
to each other; two cells and two references are the least that alias. Every
obligation is discharged in some of the functions and not in others. The functions to
emit declare, read and write `x` and `x_1`, the name that a renamed `x` gets, in each
other's scopes, beside globals of those names and with nested functions that call each other.

*checker*: one name is declared, or not, by the file, a parameter, statements before and
after, and two constructs inside each other, and used in each place; two declarations
are enough to collide and three to depend in a diamond. Integer types of four and
sixteen values and floats of three and four bits have every boundary that the real ones
have: subnormal, largest finite, carry into the next exponent, ties
(`ConstantFolding`: `MaxComponentBits` 5, `MaxTransientBits` 7 in place of the
compiler's limits). Four types that hold each other directly, in arrays, unions, records
and instances give every cycle of up to four, and instances that grow for ever
(`MaxExpanded` 5). Casts run over all pairs of types with widths 2 to 6. Matches run over
two booleans, two names, two tags and integers around the last one that
is exact as a float (`ExactIntegers` 4). Generic calls have up to three arguments, which
is one to bind a parameter, one to disagree and one to come back to it, of types i8 (-8..7), i32
(-32..31), f32 (up to 30) and f64 (up to 300), and three generic bodies that call one another.

**Disagreements the runs show.**

- `reserved_names`: the module table has one space of names, in which a file has its path
  without extension and a standard module its spelling. With `io.a7` beside the entry,
  `io :: import "io"` and `mine :: import "./io"` share the entry `"io"`, and both get the
  symbols of whichever is loaded last; a plan of the repository says that `"io"` is reserved for
  the standard library. `BindingsResolve` is claimed for projects without such a file
  (`NamesApart`).
- `nested_recursion`: only top-level functions are targets in the search
  over function values and a nested list is searched by itself: a nested
  function that calls itself through a callback parameter of a top-level function,
  or through a function nested in it, is accepted. `SPEC.md` says that
  callback trampolines cannot hide recursion. The Zig text that the compiler
  emits for such a program is recursive.
- `falling_cases`: the return check takes a case that ends in `fall` for
  one that does not return, while the check for unreachable code takes it for one
  that leaves: a match that falls and returns on every path can stand neither at the
  end of a function nor before a `ret`. `MissingReturnIsReal` states where the
  return check is exact: without `fall`, and without statements after one that never
  completes (`CutOff`: a loop without a break, which the check for unreachable code does not count).
- `loop_aliases`: after a loop that assigns a reference the pass forgets that
  it is not nil, but keeps the allocations it had before: `q = nil; while c { q = p };
  del p; if q != nil { r = q.v }` is accepted, and so are two more forms, a `new` in the
  loop and a copy of it. Loops of the passing run do not assign references except `nil`.
- `else_if_scopes`: name resolution gives an `else if` a scope and does not walk deferred
  statements; the checker gives an `else if` none and a deferred block one. A local of such a block gives its type to the
  variable of the same name outside. Files of the passing run have neither around a
  declaration of that name.
- `generic_casts`: a cast from a float to a type parameter asks for no range proof and
  emits `@intFromFloat`; a cast between two parameters emits `@intCast` though the target
  may be a float. The passing run has no cast from a float to a parameter, and none between
  two different parameters.

**Disagreements met while modelling** that no run shows; each was tried with the compiler,
and the inputs of the passing runs avoid it:

- Types: `_substitute_generic` leaves an anonymous struct as it is, so that
  `A($T) :: struct { r: struct { x: $T } }` and `B :: struct { a: A(B) n: i32 }` are accepted,
  although B holds itself inline and has "no finite size" (`type_checker.py:512`).
  `CyclesReported` does not hold of such a file, since its reference (`Ends`) passes the
  argument on. The files of `checker` have no parameter in an anonymous struct; anonymous
  structs that hold named types they do have.
- Matches: integer literals are compared with ranges as floats, so that past 2^53 a
  neighbour of a bound is reported unreachable; a named boolean constant is not looked
  through, neither when coverage is asked nor when `case T: case true:` repeats a value.
- Constants: a constant shift count outside i32 gets two reports.
- Inference depends on the order of the arguments: for `pick :: fn(a: $T, b: $T) $T`,
  `pick(2.0, 3)` binds i32 and `pick(3, 2.0)` f64, `pick(5000000000, 1.5)` is accepted and
  `pick(1.5, 5000000000)` rejected; a `nil` met first is rejected where a later argument
  would have bound the parameter.
- The constraint of a generic struct is not checked in annotations
  (`type_checker.py:793`): `fn(b: Box(f64))` is accepted for `Box($T: Integer)`, a literal
  `Box(f64){ ... }` is not.
- `topological_sort` returns importers first, though its docstring says "dependencies come
  first" (`module_resolver.py:465`), and after an edit it may report a cycle that no load
  met. Only a test calls it.
- `for xs in xs` looks its collection up where the iterator is visible already.
- Emitted names: of two nested functions of one name in sibling blocks, the calls from other nested
  functions all go to the one collected last (`zig.py:939`; `SPEC.md:953`), so the program runs the wrong one; a nested function in the
  block of a case is not callable before its declaration (`zig.py:1029`); the single
  statement of an arm opens no scope in `_collect_mutated_declarations`, so a write after the match counts for
  the arm's variable and Zig refuses the text; `_reject_captures` goes by names and refuses a nested function whose name for a global
  is also a local's; a capture that its own arm declares again loses its emitted name, and an inner
  local then takes it.

**Fairness.** `CallEnds` (resolver) assumes weak fairness of the loop's own
steps, `SearchEnds` (validator) of the search: the compiler's only thread runs on.
`TempRemoved` (native) assumes weak
fairness of each invocation's steps: the operating system schedules a process
and Zig ends; the program that `run` starts is not assumed to end. `compile`
states no liveness: its code is a straight line. An execution of an accepted
program is not claimed to end: loops may run forever.

`CHECK_DEADLOCK FALSE` is set in every run because operations and invocations
come to an end and nothing follows.

The type invariants of the resolver, of `Compile` and of `Native` (`TypeOK` of
`ModuleResolver` and of `CompileProofs`, `NativeTypeOK`) are proved, and part of the invariants below. The
state of the other machines is typed by the operators that build it, and an invariant
that repeats those types would say nothing that the others do not.

## 5. Proofs

Every theorem holds for all values of the constants under the named assumptions of the
modules, which say: sets of names, tables with the right domains, marks that are no
members of what they mark, and inodes
that are new when a file is created. TLC evaluates them on each instance. The
inductive invariants were checked by TLC on the instances of section 4 before they
were proved.

| Theorem | Statement |
| --- | --- |
| `TypeCorrect`, `CacheIsClosed`, `StackIsUnwound` | `Spec => []TypeOK`, `[]CacheClosed`, `[]StackUnwound` of `ModuleResolver` |
| `CompletedRetained` | `Spec => RetainsCompleted`, an action property |
| `VerdictIsRight`, `ModulesMergeInOrder` | `Spec => ProgramVerdict`, `MergeOrder`: action properties |
| `BindingsAreRight` | `Spec => BindingsResolve`, if no project file has the name of a standard module (`NamesApart`) |
| `CompileTypes`, `RefusalsLeaveNoTrace`, `ArtifactsAreHonest`, `ModesAlwaysAgree` | `Spec => []TypeOK`, `[]RefusalLeavesNoTrace`, `[]ArtifactsHonest`, `[]ModesAgree` of `Compile` |
| `SourcesSurvive` | `Spec => InputsSurvive`, an action property |
| `SourcesStayIntact`, `StatusesAreHonest` | `NativeSpec => []SourcesIntact`, `[]StatusHonest` |
| `BuildsInstallAtomically` | `NativeSpec => AtomicInstallation`, the refinement of `AtomicInstall` |
| `CastsAlwaysConvert` | `CastSpec => []CastsConvert`, for casts that are `Settled` |
| `SearchIsExact` | `Spec => []RecursionReported` of `CallGraph` |
| `MatchesAreJudged` | `MatchSpec => []MatchesJudged`, under `MatchParameters` |
| `ChecksImplyReturn`, `ReportedDeadIsDead`, `ReportedReturnsAreMissing` | `FlowSpec => []AlwaysReturns`, `[]UnreachableNeverRuns`, `[]MissingReturnIsReal`, under `ControlFlowParameters` |

### ModuleResolverProofs

`CacheClosed` is not inductive: that a module may be marked complete rests on its
imports having been served since it was read. `StackInv` says so: `StackPlan` relates
the loading stack to the exit events in the work list (each entry of the stack has
its exit event, in reverse order, and between two of them lie the enter events
of imports not yet served), and `Served` says that every import of a stacked
module that has no pending enter event before its exit is cached.
`IInv == TypeOK /\ StackInv /\ CacheClosed` is inductive. The proof has one lemma
per action; lemmas on sequences (what prepending, popping and appending do to
`ExitsAt` and `Served`) carry the arithmetic.

### ModuleResolverResults

What an operation on a new resolver comes to, against the graph of imports on the disk.
`Acceptable`, `ReachedKeys` and the order of the merge are defined without the code's events: a file is
reached if it lies in every set of files that holds the first ones and is closed under
imports (`Reach`), which also gives the proofs induction over paths without recursion.
An import is a path with its importer; `Due` are those written in the entry and in
the files that it reaches, `Target` the key that serves one, `Got` those served.
While a program is loaded on an undisturbed disk, `ProgramInv` holds, which is inductive
together with `IInv`:

- `EventsOK`: every pending enter event belongs to an import that is due, and its importer's
  exit is the first exit event after it; the module that `load_program_dependencies` waits for is served, or is
  the only event.
- `FilesOK`: a cached file is reached, was read without error, has no double import, and the
  cached imports are those on the disk.
- `ChainOK`: each module on the loading stack is reached from those below it; so a
  file that is met again while it waits is a cycle. An import of a waiting module still has its event, or is
  served by a module that does not wait below it.
- `RanksOK`: a completed module's imports are served by completed modules, and those
  of files by modules completed before it. At the end this excludes cycles: the
  files that reach a file were all completed after it.
- `EntryPlan` and `MergedOK`: the first `n` imports of the entry are merged in order and
  the others head the queue; merged modules are those whose identity was seen, each once; all their
  imports were seen or are queued.

A failure then finds an import, a file or a cycle that is really there (`FailureIsRight`); at
the end of the queue nothing waits, the cached files are closed under imports and hold
all that is reached (`FinishFacts`, `SuccessIsRight`, `MergedIsReached`). `BindingsInv` adds the
module table: the name that an import is bound to is registered when the import has been merged, and has only ever
stood for its own module (`TableInv`). The last needs `NamesApart`; without it a proof of
`BindingsResolve` fails at `ReadModule`, where the code is wrong too (`reserved_names`).

### CompileProofs

Every access to the disk is a step of its own, so what an invocation has checked may
be stale when it writes. The proofs say why it is not. `NamesStep` bounds what any
step of anyone may do to the names: nothing, or give one name a new inode. Then two
names that are not aliases never become aliases (`ApartStays`), and the check of the
destinations against the sources stays true until the files are open, although the
names may come and go meanwhile. Three invariants rest on it:

- `SharedInv`, for `SourcesSurvive`: what a mode may reach (`PlaceOK`); an inode made
  by an invocation shows that it has opened that file (`FreshOK`); the
  destinations are apart from the inputs from the check on (`ApartOK`), so is the
  file that is open (`OpenOK`); nothing is written before (`UntouchedOK`) and no
  input ever holds what the invocation wrote (`InputsOK`).
- `ResultInv`, for the results: `DoneOK` follows `output_path` and `doc_path` through
  the code, `TraceOK` finds every file that holds something of an
  invocation among its destinations and says in which of them it may be incomplete,
  `RefusedOK` names the two ways in which a refused call has completed a file.
- `VerdictInv`, for `ModesAlwaysAgree`: `Verdict` is a function of a snapshot of the
  sources; while nothing changes the program, what an invocation knows agrees with
  it (`Judged`), so that two invocations agree with each other.

### NativeProofs

`NativeInv` adds the workflow of `cli.py` to `SharedInv`: `StepOK` and `ExeOK` relate
steps, statuses and the executable; `DestinationOK` says that the result of
`native_output_conflict` outlasts Zig; `ExecutablesApart` and `OpenApartOK` that no
compilation writes to an executable; `InstalledOK` that the destination of a build that
has installed holds a complete executable, this one or a later one. The steps of the
compiler inherit `SharedInv` by the lemmas of `CompileProofs`; the installation
is the only step that replaces a name that exists, which has lemmas of its own. The
refinement goes step by step (`PromiseStep`): an installation is `Install` or
`InstallElsewhere`, the end of a workflow is `Succeed`, `Decline` or `Fail`, every other
step stutters.

### CastsProofs

The machine is small (`CastInv`: each step has done what it does to the cast) and
the content is in the operators. The classifier compares widths and Zig compares ranges: `LosslessMeansRanges`
says that for integers these agree, for every pair of widths and signs. It rests on
powers of two growing (`PowersGrow`), by induction over sets of numbers
(`Induction`) since a recursive function gives none. `ParameterClass`: the class of a cast with a
parameter is the strictest of its pairs, so that what holds of the class holds of each
pair, and a class that is not lossless leaves integers on the side of the parameter.
`PrimitiveConverts` and `ParameterConverts` follow each class to the one conversion it is
emitted as; `FittingApproved` is the other direction, that no cast is refused all of whose
values fit. `Settled` is needed: without it `ParameterConverts` fails where the
code does (`generic_casts`).

### CallGraphProofs

For every finite set of functions, every declaration order and every call graph. "Calls,
directly or not" is said by closed sets: `Calls(g, a, b)` if `b` lies in every
set of functions that holds `a` and is closed under calls. The invariant of the
search for components is `TarjanInv`:

- `NumbersOK`: a function that was discovered waits on the component stack or has its
  component, and the stack is in the order of the numbers.
- `WorkOK`, `WaitingOK`: the functions being looked at wait in that order too; a waiting
  function calls those above it, and calls one being looked at that is not above it.
- `LowlinkOK`, `EdgesOK`: the lowlink of a function being looked at is the number of a waiting
  function that it calls; a callee that has been looked at from above it has its component or
  waits no lower than the lowlink. So when lowlink and number are equal at the end, nothing above calls below.
- `ComponentsOK`, `RootsOK`: a component is all functions that call one another, and those that have
  one call nothing that has none; at the end all have one.

`ReportInv` adds the cycles. `PathOK`: the path stays in one component, no function is on it
twice, and of the cycles an exhaustive search would close from its start each continues the path or comes after it.
The path can be closed or extended at every moment: the branch of `ExtendPath` that gives a start up is
never taken (`LongerPath`), which is what makes the greedy search complete without
backtracking. The operators that compute closures by rounds, in the code's search for
the way back and in the property, are shown to be the least closed sets (`ChainEnd` and its lemmas: a chain of
subsets of a finite set that has not stopped growing has at least as many members as rounds). The
property quantifies over paths of bounded length; a path without repetition has at most as many
functions as there are.

### MatchesProofs

For matches of any length over any interval of integers, any names and any values of
variables. `MatchInv`: what the check remembers comes from the patterns passed
(`SeenOK`), coverage from all of them, keys and ranges from those kept; while nothing is
reported, all are kept and share no value (`KeptOK`). Each reason for a report is followed
to a pattern passed (`ReasonIsReal`), and the absence of every reason to values that differ
(`KeptApart`). That ranges which overlap share a value *of the type* is Helly's theorem
on a line (`Helly`): the two ranges and the type are three intervals that meet two by two. It is
needed for ranges between variables too, which are taken to overlap when they share one.

### ControlFlowProofs

For every set of trees up to any nesting limit, any labels, types and patterns
(`ControlFlowParameters`: bodies are lists of the parser's statements, a wildcard is no value, a
tagged union is among the types that patterns can cover, and any other type has a value that no
pattern names). The first two theorems follow from one invariant,
`FlowInv`; its part for a running function, `StackInv`, is about any stack of frames and a jump on
its way at the top, since every action replaces the top, pushes a list on it or pops it
(`Replaced...`, `Pushed...`, `Popped...`):

- `StackOK`: each list is one of the lists of the statement it belongs to, which stands where the list
  below has just been; what a list has deferred stands in it. So the lists of the
  stack are contexts of the validator's walk, with the loops of the stack around them
  (`BetweenWithin`, `CleanFunctions`), and no error of the walk is an error of theirs.
- `JumpsArrive`: a jump, also one that waits for a deferred statement, has what it leads to on
  the stack, with no function and no deferred statement in between; and a break does not go to a loop that the
  return check took for endless. Without the last, a loop could end that must not.
- `NoFallingOff`: a list that returns by the check is past its end only while its last statement runs or
  a jump is under way. That is `AlwaysReturns` for the list of the function.
- `NoneLeft`: a statement that was passed does not leave its block by the check for unreachable code;
  the last one passed may, as long as it runs or a jump is under way (`Behind`). That is `UnreachableNeverRuns` for the top, and the loops on the stack are those
  the check saw (`LoopsAround`).

A step needs what a list that ends tells of its statement: if no
list of a statement can end, the statement is not passed (`PopStep`, `FinishStep`), and a loop taken for endless
ends only by a break (`CaughtStep`). The checks are recursive: `FixedPoint` shows that a function
on statements defined by recursion on what they hold exists, by induction on the nesting (over a
set of numbers, `Induction`), and `ExitsDef`, `ReturningDef`, `WithinDef` and `StatementEndsDef` are its
instances.

`ReportedReturnsAreMissing` is the converse of the first theorem: what is reported for nothing but a missing return can
be run to its end. It relates two recursive functions, `Returning`, which looks at last statements, and
`StatementEnds`, which follows control. `TailEnds` goes down the last statements of a list that does
not return by the check: a match that is not exhaustive has a value for which no case is taken
(`ValueLeft`), and a `while true` that does not loop forever has a break that leaves it, for that
loop and no other (`LoopEnds`), that is in no deferred statement and is reached
(`BreakReached`). For the last, a list in a loop is seen from two contexts, one of which has the loop around it:
`Shifted` says that the walks from both differ in their loops only. The assumption on values leaves out
an integer whose every value a match lists: the code never takes such a match for exhaustive.

### What the proofs corrected

The proofs failed first where the model or a property was wrong beyond the bounds of the
runs. `Unchanged`, the hypothesis under which two modes agree, did not see a
dangling link that a compilation completes; a module that it creates is now a
change. `ModesAgree` compared a refused command line with a compilation. The
destination of a build could have been another compilation's output under a second name, or
a source: hence `Executables`. `AtomicInstall` had no step for a build that installs to
a name that the promise is not about. `ConstantsAssumption` of the resolver did
not say that a spelling of a standard module and its canonical name have one key, which the
registry guarantees. The proof of `BindingsResolve` led to the finding of `reserved_names`. And
`MissingReturnIsReal` excused only statements right after an endless loop: a block around the
loop, or an inner loop that only a break for an outer loop leaves, hides it from the checks as well, in bodies
that the run did not have. It now excuses every statement that never completes (`CutOff`), and the run has such bodies.

### What is only model-checked

- Liveness (`CallEnds`, `TempRemoved`, `SearchEnds`): it rests on fairness and on `ENABLED`,
  which TLAPS does not handle here.
- The tokenizer and the parser (`TokensLocated`, `RoundTrip`): they work on strings of characters, for which TLAPS
  has no theory.
- The search of `RecursionBan` (`NoRecursion`, `DirectCallsJudgedExactly`), `SafetyProof`, `EmittedNames` and the
  other modules on types and expressions. Most of their walks are RECURSIVE operators, after the code's own
  recursion on its data, and TLAPS has no SMT backend in a module that reaches one.
  `ControlFlow` shows how such a module is made provable: recursive functions on a set of trees
  of bounded nesting. `Scopes` has no RECURSIVE operator and is next.

## 6. Not modelled

- Races of the file system below the level of names: two invocations writing
  one file at the same time may mix their bytes; the model writes in one step.
- `topological_sort`, a query of the module resolver that the compiler never asks.
- Directories being created or removed while an invocation runs; the merging of file
  modules into one program, and `compile_project`.
- Tokens and trees: the tables of keywords beyond one of each role, recovery of several errors
  in one file, spans of nodes.
- Scopes: namespaces of imports, labels, methods.
- Types: function types as arguments of generic calls, methods, the typing of expression
  forms that neither fold, match, cast nor instantiate.
- Calls in the recursion ban that are no identifiers: fields, elements and results
  that hold functions, `match` captures, loop variables, generic function types.
- Payload bindings and captures in match patterns of `ControlFlow`; statements outside functions.
- In the safety proof: fields and elements as places, the summaries and the replay of
  callees, `for ... in`, `if` and `match` expressions, declarations inside blocks,
  multiplication, remainder, `readonly_requirements.py`.
- The backend but for names and casts: the text of expressions, types and helpers, evaluation
  order, matches that fall through; the preprocessor but for shadowing.
- Text: messages, JSON layout, formatters, and the scripts, site, examples and bench of the
  repository, which are no part of the compiler.

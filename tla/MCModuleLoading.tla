--------------------------- MODULE MCModuleLoading ---------------------------
(***************************************************************************)
(* A main file, a library, a package file and a text of the prompt, each   *)
(* with a few contents chosen to meet: a cycle of imports, an import that  *)
(* is missing, a package found by a call, a second arity, mixfix syntax    *)
(* used before and after its import, a name used twice, a malformed end.   *)
(***************************************************************************)
EXTENDS ModuleLoading

CONSTANTS main, lib, pack, text, f, g, q, op

MCFile == {main, lib, pack}
MCText == {text}
MCName == {f, g, q}
MCCaptures == [p \in {op} |-> 2]
MCPackage == [n \in MCName |-> IF n = q THEN pack ELSE NoFile]

Blank ==
    [kind |-> "malformed", name |-> f, arity |-> 0, call |-> NoName, guarded |-> FALSE,
     uses |-> Plain, applies |-> <<>>, annotation |-> "none", syntax |-> Plain,
     pure |-> TRUE, matches |-> TRUE, from |-> [tried |-> <<>>, native |-> FALSE, directory |-> FALSE]]

Malformed == Blank
Import(file) == [Blank EXCEPT !.kind = "import", !.from.tried = <<file>>]
ImportNative(file) == [Blank EXCEPT !.kind = "import", !.from.tried = <<file>>,
                                    !.from.native = TRUE]
ImportDirectory == [Blank EXCEPT !.kind = "import", !.from.tried = <<lib, main>>,
                                 !.from.directory = TRUE]
Callable(n, k) == [Blank EXCEPT !.kind = "callable", !.name = n, !.arity = k]
Applying(n, callee, k) == [Callable(n, 1) EXCEPT !.applies = <<callee, k>>]
Annotated(n, callee) == [Callable(n, 1) EXCEPT !.annotation = "method", !.call = callee]
Mixfix(n) == [Callable(n, 0) EXCEPT !.annotation = "mixfix", !.syntax = op]
Overload(n, k) == [Callable(n, k) EXCEPT !.annotation = "overload", !.syntax = op]
Matcher(n) == [Callable(n, 0) EXCEPT !.annotation = "matcher", !.syntax = op,
                                     !.matches = FALSE]
Using(n, k) == [Callable(n, k) EXCEPT !.uses = op]
Fact(n) == [Blank EXCEPT !.kind = "fact", !.name = n]
Class(n) == [Blank EXCEPT !.kind = "class", !.name = n]
Global(n, callee) == [Blank EXCEPT !.kind = "global", !.name = n, !.call = callee]
Entry(callee, inTry) == [Blank EXCEPT !.kind = "entry", !.call = callee, !.guarded = inTry]

MCContents ==
    (main :> {<<Import(lib), Callable(g, 1), Applying(f, g, 1)>>,
              <<ImportDirectory, Fact(g), Entry(q, TRUE)>>,
              <<Global(g, q), ImportNative(lib), Class(f)>>}
     @@ lib :> {Absent,
                <<Import(main), Annotated(f, q)>>,
                <<Mixfix(f), Overload(f, 2)>>,
                <<Fact(f), Mixfix(g), Matcher(g)>>}
     @@ pack :> {Absent,
                 <<Global(g, NoName), Callable(q, 1), Malformed>>,
                 <<Import(lib), Global(g, NoName), Callable(q, 2)>>}
     @@ text :> {<<Using(g, 2), Import(lib)>>,
                 <<Global(g, q), Import(lib), Fact(g)>>})
=============================================================================

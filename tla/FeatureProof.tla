----------------------------- MODULE FeatureProof -----------------------------
(***************************************************************************)
(* deploy/tools/lib/dockerfile-rs-features.cjs: from a Dockerfile, the     *)
(* Cargo features of the noevia-server binary the image ships, or no       *)
(* answer; and deriveFeatures of rs-capability.cjs, which closes them over *)
(* Cargo.toml. Beside each, what Docker and Cargo make of the same files.  *)
(*                                                                         *)
(* A Dockerfile is a sequence of lines, one instruction each, and a stage  *)
(* is the line of its FROM. Names of stages and base images are strings:   *)
(* "rust" is rust:N-slim-bookworm, "node" node:22-bookworm, "var" a base   *)
(* with a $; "none" no name or no --from. A path is what the reader tells  *)
(* apart: "/out/" and its file, /src/, the directory of the binary (BIN),  *)
(* the binary, a directory "above" it (/, /usr, /usr/local), the current   *)
(* directory, or elsewhere.                                                *)
(***************************************************************************)
EXTENDS Integers, Sequences, FiniteSets, FiniteSetsExt

From(base, name) == [kw |-> "FROM", base |-> base, name |-> name]
Copy(kw, from, src, dest) == [kw |-> kw, from |-> from, src |-> src, dest |-> dest]
Env(toolchain) == [kw |-> "ENV", toolchain |-> toolchain]
WorkDir(dir) == [kw |-> "WORKDIR", dir |-> dir]
Run(program) == [kw |-> "RUN", program |-> program]

(* ONBUILD, SHELL; an escape directive; a file that ends in a continuation.  *)
Word(kw) == [kw |-> kw]

(* The first line of a heredoc, whose body is the next lines.                *)
Heredoc(body) == [kw |-> "HEREDOC", body |-> body]

(* A RUN: the whole text is one of the two front build forms (literal, or    *)
(* with feature selectors), or it names the binary, its directory or         *)
(* /usr/local ("touching"), or none of them; then it leaves the binary alone *)
(* ("plain") or replaces it all the same, as `cp -r x/. /usr` does           *)
(* ("unnamed"). segments: the shell's commands between mkdir and cp.         *)
Program(form, segments, select) == [form |-> form, segments |-> segments, select |-> select]

(* A cargo command; odd: an expansion, a glob, a redirection, an unsupported *)
(* or malformed option, a toolchain, a feature of another package.           *)
Cargo(sub, packages, bins, release, features, noDefault, odd) ==
  [cmd |-> "cargo", sub |-> sub, packages |-> packages, bins |-> bins, release |-> release,
   features |-> features, noDefault |-> noDefault, odd |-> odd]

Commands ==
  [cmd : STRING, sub : STRING, packages : SUBSET STRING, bins : SUBSET STRING, release : BOOLEAN,
   features : SUBSET STRING, noDefault : BOOLEAN, odd : BOOLEAN]
Programs ==
  [form : {"literal", "selector", "touching", "unnamed", "plain"}, segments : Seq(Commands),
   select : SUBSET [f : STRING, exact : BOOLEAN]]

Instructions ==
  [kw : {"FROM"}, base : STRING, name : STRING]
    \cup [kw : {"COPY", "ADD"}, from : STRING, src : STRING, dest : STRING]
    \cup [kw : {"ENV"}, toolchain : BOOLEAN] \cup [kw : {"WORKDIR"}, dir : STRING]
    \cup [kw : {"RUN"}, program : Programs] \cup [kw : {"HEREDOC"}, body : Nat]
    \cup [kw : {"ONBUILD", "SHELL", "ESCAPE", "UNFINISHED"}]

Nothing == [ok |-> FALSE, features |-> {}]
Found(features) == [ok |-> TRUE, features |-> features]

-----------------------------------------------------------------------------
(* Stages, as the reader and Docker number them. *)
Froms(lines) == {n \in 1..Len(lines) : lines[n].kw = "FROM"}

(* The stage of line n; 0 before the first. *)
StageAt(lines, n) == Max({0} \cup {f \in Froms(lines) : f <= n})

(* The last line of stage f. *)
StageEnd(lines, f) == Max({n \in 1..Len(lines) : StageAt(lines, n) = f})

StagesOf(lines, name) == {f \in Froms(lines) : name # "none" /\ lines[f].name = name}

(* The stages of that name before the one line n is in. *)
Earlier(lines, name, n) == {f \in StagesOf(lines, name) : f < StageAt(lines, n)}

(* What stages() and instructions() refuse file-wide. *)
Readable(lines) ==
  /\ lines # <<>> /\ lines[1].kw = "FROM"
  /\ \A n \in 1..Len(lines) :
       /\ lines[n].kw \notin {"HEREDOC", "ESCAPE", "UNFINISHED"}
       /\ lines[n].kw = "FROM" => lines[n].base # "platform"
  /\ \A f, g \in Froms(lines) : lines[f].name = lines[g].name => f = g \/ lines[f].name = "none"

-----------------------------------------------------------------------------
(* The reader. *)

(* Of every stage, itself and those it inherits from. *)
Chains(lines) ==
  LET chain[f \in Froms(lines)] ==
        {f} \cup UNION {chain[p] : p \in Earlier(lines, lines[f].base, f)}
  IN chain

(* No unresolved base, and no name that only a later stage has.              *)
ChainKnown(lines, chain) ==
  \A f \in chain :
    lines[f].base # "var" /\ StagesOf(lines, lines[f].base) = Earlier(lines, lines[f].base, f)

(* The lines of a chain. *)
InsOf(lines, chain) == {n \in 1..Len(lines) : lines[n].kw # "FROM" /\ StageAt(lines, n) \in chain}

Exact(cargo, f) == f \in cargo.spaced /\ f \in DOMAIN cargo.graph /\ cargo.graph[f] = {}

(* The features of a literal build, with those its selectors find in         *)
(* Cargo.toml: a line that is "f = []", or one that begins with "f = ".      *)
Requested(program, cargo) ==
  program.segments[1].features
    \cup {s.f : s \in {t \in program.select :
                         IF t.exact THEN Exact(cargo, t.f) ELSE t.f \in cargo.spaced}}

(* parseCargo, and the single plain producing command.                       *)
PlainBuild(program) ==
  /\ program.form \in {"literal", "selector"}
  /\ Len(program.segments) = 1
  /\ LET c == program.segments[1]
     IN /\ c.cmd = "cargo" /\ c.sub \in {"build", "b"} /\ ~c.odd /\ c.release
        /\ c.packages = {"noevia-server"} /\ c.bins \subseteq {"noevia-server"}

WithDefault(program, cargo) ==
  Requested(program, cargo)
    \cup {f \in {"default"} : ~program.segments[1].noDefault /\ f \in DOMAIN cargo.graph}

(* The front's build: the four lines a to d, and no other. *)
Front(lines, ins, a, b, c, d) ==
  /\ ins = {a, b, c, d} /\ a < b /\ b < c /\ c < d
  /\ lines[a] = Env(TRUE) /\ lines[b] = Copy("COPY", "none", "rs/", "/src/")
  /\ lines[c] = WorkDir("/src") /\ lines[d].kw = "RUN" /\ PlainBuild(lines[d].program)

Built(lines, ins, cargo) ==
  IF \E a, b, c, d \in ins : Front(lines, ins, a, b, c, d)
  THEN Found(WithDefault(lines[Max(ins)].program, cargo)) ELSE Nothing

(* Mutant: the instructions of the stage alone. *)
ProveBuildAlone(lines, source, cargo) ==
  IF lines[source].base = "rust" THEN Built(lines, InsOf(lines, {source}), cargo) ELSE Nothing

ProveBuild(lines, source, cargo) ==
  LET chain == Chains(lines)[source]
  IN IF ChainKnown(lines, chain) /\ lines[Min(chain)].base = "rust"
     THEN Built(lines, InsOf(lines, chain), cargo) ELSE Nothing

(* Mutant: the first WORKDIR stays. *)
DirAtFirst(lines, ins, n) ==
  LET dirs == {m \in ins : m < n /\ lines[m].kw = "WORKDIR"}
  IN IF dirs = {} THEN "/" ELSE lines[Min(dirs)].dir

(* The directory before line n of a chain. *)
DirAt(lines, ins, n) ==
  LET dirs == {m \in ins : m < n /\ lines[m].kw = "WORKDIR"}
  IN IF dirs = {} THEN "/" ELSE lines[Max(dirs)].dir

(* writes: a copy may place the binary in any directory above it.            *)
Writes(l, dir) ==
  /\ l.kw \in {"COPY", "ADD"}
  /\ \/ l.dest \in {"BIN/", "BIN", "above"}
     \/ l.dest = "." /\ dir \in {"/", "BIN/", "above"}

Placed(lines, ins) == {n \in ins : Writes(lines[n], DirAt(lines, ins, n))}

(* A RUN is refused for the words in it; a copy counts among those Placed.   *)
Overwritable(lines, ins) ==
  \E n \in ins :
    \/ lines[n].kw \in {"ONBUILD", "SHELL"}
    \/ lines[n].kw = "RUN" /\ lines[n].program.form \in {"literal", "selector", "touching"}

OfOutput(l) == <<l.src, l.dest>> \in {<<"/out/", "BIN/">>, <<"/out/noevia-server", "BIN">>}

(* The one write of BIN, a COPY of /out from an earlier stage of the file.   *)
ProvenCopy(lines, n) ==
  lines[n].kw = "COPY" /\ OfOutput(lines[n]) /\ Earlier(lines, lines[n].from, n) # {}

ProveFeatures(lines, cargo) ==
  LET chain == Chains(lines)[Max(Froms(lines))]
      ins == InsOf(lines, chain)
      placed == Placed(lines, ins)
      hit == CHOOSE n \in placed : TRUE
  IN IF /\ Readable(lines)
        /\ ChainKnown(lines, chain) /\ lines[Min(chain)].base = "node"
        /\ ~Overwritable(lines, ins)
        /\ Cardinality(placed) = 1 /\ ProvenCopy(lines, hit)
     THEN ProveBuild(lines, CHOOSE s \in StagesOf(lines, lines[hit].from) : TRUE, cargo)
     ELSE Nothing

-----------------------------------------------------------------------------
(* deriveFeatures: the proven features, closed over a table that declares    *)
(* every one of them; "dep:x" and "x/y" name no feature of this crate.       *)
Elsewhere == {"dep:x", "x/y"}

Grown(graph, s) == s \cup UNION {graph[f] \ Elsewhere : f \in s \cap DOMAIN graph}

Reach(graph, start) ==
  LET reach[n \in Nat] == IF n = 0 THEN start ELSE Grown(graph, reach[n - 1]) IN reach

Visit(graph, start) == Reach(graph, start)[Cardinality(DOMAIN graph) + 1]

DeriveFeatures(lines, cargo) ==
  LET proof == ProveFeatures(lines, cargo)
      visited == Visit(cargo.graph, proof.features)
  IN IF cargo.tables = 1 /\ proof.ok /\ visited \subseteq DOMAIN cargo.graph
     THEN Found(visited) ELSE Nothing

-----------------------------------------------------------------------------
(* What Docker makes of the file: the body of a heredoc is no instruction.   *)
Active(lines) ==
  LET body[n \in 0..Len(lines)] ==
        IF n = 0 THEN 0
        ELSE IF body[n - 1] > 0 THEN body[n - 1] - 1
        ELSE IF lines[n].kw = "HEREDOC" THEN lines[n].body ELSE 0
  IN [n \in 1..Len(lines) |-> IF body[n - 1] > 0 THEN Word("BODY") ELSE lines[n]]

(* Cargo: the smallest set with the requested features and the default ones  *)
(* that is closed under the table; a feature the table lacks is an error.    *)
CargoBuilds(program, cargo) ==
  LET default == IF program.segments[1].noDefault THEN {} ELSE {"default"} \cap DOMAIN cargo.graph
      start == Requested(program, cargo) \cup default
      closed == {s \in SUBSET DOMAIN cargo.graph :
                   start \subseteq s /\ \A f \in s : cargo.graph[f] \ Elsewhere \subseteq s}
  IN IF closed = {} THEN Nothing
     ELSE Found({f \in DOMAIN cargo.graph : \A s \in closed : f \in s})

(* The file system of a stage. A binary is Found(features) when it is        *)
(* certain to be the noevia-server of rs/ with these features.               *)
Clean(base) ==
  [rust |-> base = "rust", toolchain |-> FALSE, rs |-> FALSE, dir |-> "/", trigger |-> FALSE,
   shell |-> FALSE, out |-> Nothing, bin |-> Nothing]

(* One instruction; given is the output of the stage it copies from.         *)
Effect(fs, given, l, cargo) ==
  CASE l.kw = "WORKDIR" -> [fs EXCEPT !.dir = l.dir]
    [] l.kw = "ENV"     -> [fs EXCEPT !.toolchain = l.toolchain]
    [] l.kw = "SHELL"   -> [fs EXCEPT !.shell = TRUE]
    [] l.kw = "ONBUILD" -> [fs EXCEPT !.trigger = TRUE]
    [] l.kw = "RUN" /\ l.program.form = "plain" -> fs
    [] l.kw = "RUN" /\ l.program.form \in {"touching", "unnamed"} ->
         [fs EXCEPT !.out = Nothing, !.bin = Nothing]
    [] l.kw = "RUN" /\ l.program.form \in {"literal", "selector"} ->
         [fs EXCEPT !.out = IF /\ fs.rust /\ fs.toolchain /\ fs.rs /\ ~fs.shell
                               /\ fs.dir = "/src" /\ PlainBuild(l.program)
                            THEN CargoBuilds(l.program, cargo) ELSE Nothing]
    [] l.kw \in {"COPY", "ADD"} ->
         [fs EXCEPT
            !.rs  = IF l.dest = "/src/" THEN l.from = "none" /\ l.src = "rs/" ELSE @,
            !.out = IF l.dest = "/out/" THEN Nothing ELSE @,
            !.bin = IF ~Writes(l, fs.dir) THEN @ ELSE IF OfOutput(l) THEN given ELSE Nothing]
    [] OTHER -> fs

(* The last line of the earlier stage a name stands for at line n. *)
Last(lines, name, n) == StageEnd(lines, CHOOSE f \in Earlier(lines, name, n) : TRUE)

(* What the line copies from another stage. *)
Given(lines, root, n) ==
  IF Earlier(lines, lines[n].from, n) = {} THEN Nothing ELSE root[Last(lines, lines[n].from, n)].out

(* The file system after line n, by those after the lines before it. A stage *)
(* begins with that of the earlier stage its base names, or a base image.    *)
RootAt(lines, cargo, root, n) ==
  IF n = 0 THEN Clean("none")
  ELSE IF lines[n].kw = "FROM"
  THEN LET base == lines[n].base
       IN IF Earlier(lines, base, n) # {} /\ ~root[Last(lines, base, n)].trigger
          THEN root[Last(lines, base, n)] ELSE Clean(base)
  ELSE Effect(root[n - 1], Given(lines, root, n), lines[n], cargo)

Roots(lines, cargo) ==
  LET root[n \in 0..Len(lines)] == RootAt(lines, cargo, root, n) IN root

Ships(lines, cargo) == Roots(Active(lines), cargo)[Len(lines)].bin

(* The image is made with a RUN that replaces the binary without naming it.  *)
Unseen(lines) ==
  LET chain == Chains(lines)[Max(Froms(lines))]
  IN \E n \in InsOf(lines, chain) : lines[n].kw = "RUN" /\ lines[n].program.form = "unnamed"
=============================================================================

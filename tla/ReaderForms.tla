------------------------------ MODULE ReaderForms ------------------------------
(***************************************************************************)
(* The forms of Dockerfile, Cargo.toml and source that the marker reader   *)
(* is there to read, as its tests and the repository have them.            *)
(***************************************************************************)
EXTENDS RsCapability

(* Dockerfiles: a front stage, other stages, a runtime stage with a copy of  *)
(* the binary, a tail.                                                       *)
Server == {"noevia-server"}
Build == Cargo("build", Server, {}, TRUE, {"f1"}, FALSE, FALSE)
Literal(command) == Program("literal", <<command>>, {})
Plain == Literal(Build)
Touching == Run(Program("touching", <<>>, {}))
Unnamed == Run(Program("unnamed", <<>>, {}))
Rogue(dest) == Copy("COPY", "none", "other", dest)
Shipped(from) == Copy("COPY", from, "/out/", "BIN/")

FrontStage(name, program) ==
  <<From("rust", name), Env(TRUE), Copy("COPY", "none", "rs/", "/src/"),
    WorkDir("/src"), Run(program)>>

LegacyBuild == Literal([Build EXCEPT !.features = {"f2"}, !.noDefault = TRUE])
Legacy == FrontStage("legacy", LegacyBuild)

File(program, extra, middle, copy, after, tail) ==
  FrontStage("front", program) \o extra \o middle
    \o <<From("node", "runtime"), WorkDir("/app")>> \o copy \o after \o tail

Production == <<From("runtime", "production")>>

(* One build; the build among others, copied from one of them; one file, and *)
(* a copy of it in a stage that is not part of the image.                    *)
OneBuild(p) == File(p, <<>>, <<>>, <<Shipped("front")>>, <<>>, Production)
Others == Legacy \o <<From("front", "copied")>>
Among(p, from) == File(p, <<>>, Others, <<Shipped(from)>>, <<>>, Production)
Unused == <<From("node", "unused"), Shipped("front")>>
OneFile(p) ==
  File(p, <<>>, <<>>, <<Copy("COPY", "front", "/out/noevia-server", "BIN")>>, <<Rogue(".")>>,
       Unused \o Production)

Optioned(fs, d, b) == Literal([Build EXCEPT !.features = fs, !.noDefault = d, !.bins = b])
Selecting(f, x) == Program("selector", <<Build>>, {[f |-> f, exact |-> x]})
Usual ==
  {Optioned(fs, d, b) : fs \in SUBSET {"f1", "f2"}, d \in BOOLEAN, b \in {{}, Server}}
    \cup {Selecting(f, x) : f \in {"f2", "none"}, x \in BOOLEAN}

Typical == OneBuild(Plain)

Canonical ==
  UNION {{OneBuild(p), OneFile(p)} \cup {Among(p, s) : s \in {"front", "copied", "legacy"}} :
           p \in Usual}

-----------------------------------------------------------------------------
(* Manifests: f1 and f2 declared, with and without a default.                *)
Manifest(graph, spaced, tables) == [graph |-> graph, spaced |-> spaced, tables |-> tables]
Cargos ==
  {Manifest([f \in {"f1", "f2"} |-> IF f = "f2" THEN deps ELSE {}], spaced, 1) :
     deps \in {{}, {"f1"}, {"dep:x", "x/y"}}, spaced \in {{}, {"f2"}}}
  \cup {Manifest([f \in {"f1", "f2", "default"} |->
                    IF f = "default" THEN deps ELSE IF f = "f2" THEN {"f1"} ELSE {}], {}, 1) :
          deps \in {{}, {"f2"}}}

(* Sources of the front. *)
Declared(elements) == <<Item("root", <<>>, elements)>>
Conditional(a) == Declared(<<Element("other", <<>>), Element("cap", a)>>)

-----------------------------------------------------------------------------
(* RsCapability: a source, a Dockerfile and a manifest of the forms the      *)
(* repository uses are read, so that a reader which refuses everything it    *)
(* is not sure of does not stop a release.                                   *)
MarkerRead ==
  answer = "invalid" =>
    ~ /\ reading.source \in
           {Conditional(a) : a \in {<<>>, <<"f1">>, <<"f2">>, <<"harmless", "f1">>}}
      /\ reading.cargo \in Cargos /\ reading.file \in Canonical
=============================================================================

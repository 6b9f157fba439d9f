------------------------------- MODULE MCRelease -------------------------------
(***************************************************************************)
(* The four decisions a release passes, each on its own inputs, with the   *)
(* other three decided: the assembler makes the archive, the marker reader *)
(* says whether the front it holds has a capability, the idle gate lets    *)
(* the cutover begin, and the supervisor's start checks let the new image  *)
(* start.                                                                  *)
(***************************************************************************)
EXTENDS MCReleaseAssembly, IdleGate, StartCheck, ReaderForms

-----------------------------------------------------------------------------
(* Dockerfiles: the ways the readers' tests spoil the forms they read, up to *)
(* four at a time.                                                           *)
Extras ==
  {<<>>, <<Touching>>, <<Unnamed>>, <<Run(Plain)>>, <<Rogue("/src/")>>, <<Rogue("/out/")>>,
   <<Word("SHELL")>>, <<Word("ONBUILD")>>, <<Env(FALSE)>>}
Middles ==
  {<<>>, Legacy, <<From("front", "copied")>>, <<From("front", "copied"), Run(Plain)>>}
Copies ==
  {<<Shipped(s)>> : s \in {"front", "copied", "legacy", "late", "none"}}
    \cup {<<Copy("COPY", "front", "/out/noevia-server", "BIN")>>,
          <<Copy("COPY", "front", "other", "BIN")>>, <<Copy("ADD", "none", "/out/", "BIN/")>>,
          <<Heredoc(1), Shipped("front")>>, <<>>}
Afters ==
  {<<>>, <<Shipped("front")>>, <<Shipped("legacy")>>, <<Rogue("BIN/")>>, <<Rogue("above")>>,
   <<WorkDir("BIN/"), Rogue(".")>>, <<WorkDir("above"), Rogue(".")>>, <<Rogue(".")>>,
   <<Touching>>, <<Unnamed>>, <<Word("SHELL")>>}
Tails ==
  {Production, <<From("node", "production")>>, <<From("var", "production")>>,
   <<From("node", "unused"), Shipped("front")>> \o Production,
   Production \o FrontStage("late", Plain) \o <<From("production", "last")>>,
   Production \o <<Word("UNFINISHED")>>}

Spoilt ==
  {Literal([Build EXCEPT !.odd = TRUE]), Literal([Build EXCEPT !.packages = {}]),
   Literal([Build EXCEPT !.bins = {"other"}]), Literal([Build EXCEPT !.release = FALSE]),
   Literal([Build EXCEPT !.sub = "install"]), Literal([Build EXCEPT !.cmd = "make"]),
   Program("literal", <<Build, [Build EXCEPT !.features = {}]>>, {}),
   Program("touching", <<Build>>, {})}

(* Manifests without a feature, without a table or with two. *)
Flawed ==
  {Manifest([f \in {"f2"} |-> {}], {}, 1), Manifest([f \in {"f1", "f2"} |-> {"lost"}], {}, 1),
   Manifest([f \in {"f1", "f2"} |-> {}], {}, 0), Manifest([f \in {"f1", "f2"} |-> {}], {}, 2)}
Defaulting == CHOOSE c \in Cargos : "default" \in DOMAIN c.graph /\ c.graph["default"] = {"f2"}

(* Sources of the front. *)
Attrs ==
  {<<>>, <<"harmless">>, <<"f1">>, <<"f2">>, <<"harmless", "f1">>, <<"f1", "f2">>, <<"not f1">>}
Elements == {Element(v, a) : v \in {"cap", "other", "alias"}, a \in Attrs}
              \cup {Element(v, <<>>) : v \in {"path", "expression"}}
Sources ==
  {Declared(es) : es \in {<<>>} \cup {<<x>> : x \in Elements} \cup (Elements \X Elements)}
  \cup {before \o <<Item(k, a, <<Element("cap", e)>>)>> \o after :
          before, after \in {<<>>, <<Item("inner", <<"harmless">>, <<>>)>>,
                             <<Item("inner", <<"not f1">>, <<>>)>>, Conditional(<<>>)},
          k \in {"root", "odd", "nested", "other"},
          a \in {<<>>, <<"harmless">>, <<"f2">>, <<"not f1">>}, e \in {<<>>, <<"f1">>}}

MCReadings ==
  [file : {Typical}, cargo : {Defaulting}, source : Sources]
  \cup [file : {OneBuild(p) : p \in Usual \cup Spoilt} \cup {OneFile(Plain)}
                 \cup {Among(Plain, s) : s \in {"front", "copied", "legacy"}},
        cargo : Cargos \cup Flawed, source : {Conditional(a) : a \in Attrs}]
  \cup [file : {File(Plain, x, m, c, y, t) :
                  x \in Extras, m \in Middles, c \in Copies, y \in Afters, t \in Tails}
               \cup {<<Word("ESCAPE")>> \o Typical,
                     <<From("other", "unrelated"), Heredoc(2), From("other", "fake"),
                       Shipped("front")>> \o Typical,
                     <<From("platform", "front")>> \o Tail(Typical)},
        cargo : {Defaulting}, source : {Conditional(<<"f2">>)}]

-----------------------------------------------------------------------------
(* UI_PORT at the limits of each range, with leading zeros and beyond a word *)
(* of the shell, cut to 18 bits here.                                        *)
Ports ==
  {<<>>, <<Letter>>, <<8, Letter>>, <<0>>, <<1>>, <<6, 3, 5, 3, 5>>, <<6, 3, 5, 3, 6>>,
   <<6, 4, 5, 3, 5>>, <<6, 4, 5, 3, 6>>, <<0, 4, 1, 6, 0>>, <<0, 0, 1>>, <<0, 8>>,
   <<0, 0, 6, 4, 5, 3, 6>>, <<1, 3, 1, 0, 7, 1>>, <<1, 3, 1, 0, 7, 2>>, <<2, 6, 2, 1, 4, 5>>,
   <<3, 2, 4, 6, 7, 9>>, <<3, 2, 5, 6, 8, 0>>}

(* Every combination behind a native front, the extremes behind another.     *)
Parts(fronts, bins, features) ==
  [front : fronts, bin : bins, codeNet : BOOLEAN, features : features,
   marks : SUBSET (Pairs \cup {G!Baseline}),
   embedding : {"absent", "owned", "broken"},
   client : {"absent", "canonical", "broken"},
   worker : BOOLEAN, port : {<<>>}]

Images ==
  Parts({"rust"}, {"absolute"}, SUBSET G!Features)
  \cup Parts({"rust", "other"}, {"absolute", "relative", "none"}, {{}, Required, G!Features})
  \cup {[front |-> "rust", bin |-> "absolute", codeNet |-> FALSE,
         features |-> Required, marks |-> {}, embedding |-> "absent",
         client |-> "absent", worker |-> TRUE, port |-> text] : text \in Ports}

-----------------------------------------------------------------------------
(* The parts at rest: nothing to assemble, an idle gate without job store, a *)
(* reading and an image that are decided.                                    *)
Reading0 ==
  [file |-> Typical, cargo |-> Defaulting, source |-> <<Item("odd", <<>>, <<>>)>>]
Image0 ==
  [front |-> "other", bin |-> "none", codeNet |-> FALSE, features |-> {}, marks |-> {},
   embedding |-> "absent", client |-> "absent", worker |-> FALSE, port |-> <<>>]

AssemblyRests ==
  /\ lock = Pinned /\ noevia = {} /\ core = CoreOf({}) /\ rs = RsOf({})
  /\ tree = Empty /\ partial = FALSE /\ out = "none" /\ pc = "died"
IdleRests ==
  /\ store = "none" /\ users = "absent" /\ accounts = {} /\ unknown = {}
  /\ old = [d \in Dirs |-> 0] /\ new = old /\ todo = {} /\ active = 0
  /\ gpc = "done" /\ verdict = "error"
ReaderRests == reading = Reading0 /\ answer = "invalid"
StartRests == asked = Image0 /\ started = "refuse"

ReleaseInit ==
  \/ Init /\ IdleRests /\ ReaderRests /\ StartRests
  \/ AssemblyRests /\ IdleInit /\ ReaderRests /\ StartRests
  \/ AssemblyRests /\ IdleRests /\ ReaderInit /\ StartRests
  \/ AssemblyRests /\ IdleRests /\ ReaderRests /\ asked \in Images /\ started = "none"

ReleaseNext ==
  \/ Next /\ UNCHANGED <<idleVars, readVars, startVars>>
  \/ IdleNext /\ UNCHANGED <<assemblyVars, readVars, startVars>>
  \/ ReadMarker /\ UNCHANGED <<assemblyVars, idleVars, startVars>>
  \/ Decide /\ UNCHANGED <<assemblyVars, idleVars, readVars>>

ReleaseSpec ==
  ReleaseInit /\ [][ReleaseNext]_<<assemblyVars, idleVars, readVars, startVars>>

=============================================================================

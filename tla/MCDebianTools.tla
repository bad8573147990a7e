--------------------------- MODULE MCDebianTools ---------------------------
(***************************************************************************)
(* A small source package for TLC, and what its files may be changed to.   *)
(***************************************************************************)
EXTENDS DebianTools

Hello == [name |-> <<"hello">>, version |-> <<"1.0-1">>]

Header(source, version) ==
  source \o <<"(">> \o version \o <<")", "unstable", ";", "urgency=", "medium">>
SignedBy(name, space, date) == <<"--", name>> \o space \o date

Changelog(header) ==
  Lines(<<<<>>, header, <<>>, <<"*", "New", "release">>, <<>>,
          SignedBy("Ann", <<"  ">>, <<"Mon">>)>>)

SourceParagraph(standards) ==
  [f \in {"Source", "Maintainer", "Uploaders", "Build-Depends", "Homepage",
          "Vcs-Git", "Standards-Version"} |->
     CASE f = "Source" -> <<"hello">> [] f = "Maintainer" -> <<"Ann">>
       [] f = "Uploaders" -> <<"Bob", ",", "Cem">>
       [] f = "Build-Depends" ->
            <<"debhelper-compat", "(", "=", "13", ")", ",", "cmake", "(", ",", ")", ",">>
       [] f = "Homepage" -> <<"https://", "hello">>
       [] f = "Vcs-Git" -> <<"https://", "git">>
       [] f = "Standards-Version" -> <<standards>>]
BinaryParagraph == [f \in {"Package", "Depends", "Multi-Arch"} |->
                      CASE f = "Package" -> <<"hello">>
                        [] f = "Depends" -> <<"libc6", ",", "libm">>
                        [] f = "Multi-Arch" -> <<>>]
ArchParagraph == [f \in {"Package", "Architecture"} |-> <<"hello-doc">>]
Without(paragraph, f) == [g \in DOMAIN paragraph \ {f} |-> paragraph[g]]
Control(standards) == Stanzas(<<SourceParagraph(standards), BinaryParagraph, ArchParagraph>>)

Copyright ==
  Stanzas(<<[f \in {"Format", "Upstream-Name"} |-> <<"https://", "dep5">>],
            [f \in {"Files", "License"} |-> <<"Expat">>],
            [f \in {"License", "Source"} |-> <<"Expat">>]>>)
Watch == Lines(<<<<"version=", "4">>, <<"#", "x">>, <<"opts=", "x">>,
                 <<"https://", "hello", ".tar.gz">>, <<"pgpsigurlmangle=", "asc">>>>)
Series == Lines(<<<<"#", "x">>, <<"fix.patch">>>>)
Fix == Lines(<<<<"Description", ":", "fix">>, <<"more">>, <<"Forwarded", ":">>,
               <<"Author", ":", "Ann">>, <<"---", "a">>, <<"Author", ":", "Bob">>>>)
TestsControl == Stanzas(<<[f \in {"Tests", "Depends"} |-> <<"smoke", "now">>],
                          [f \in {"Restrictions"} |-> <<"root">>]>>)
Rules == Lines(<<<<"#!/usr/bin/make", "-f">>, <<"%", ":">>, <<"dh $@">>,
                 <<"override_", "dh_auto_test", ":">>>>)
Gbp == Lines(<<<<"[", "DEFAULT", "]">>, <<"branch", "=", "x">>,
               <<"[", "BUILD-DEFAULTS", "]">>, <<"debian-branch", "=", "sid">>,
               <<"debian-branch", "=", "main">>>>)

Sound ==
  [debian |-> TRUE,
   files |-> [p \in {"changelog", "control", "source/format", "copyright", "watch",
                     "patches/series", "tests/control", "rules", "postinst",
                     "gbp.conf"} |->
     CASE p = "changelog" -> Changelog(Header(<<"hello">>, <<"1.0-1">>))
       [] p = "control" -> Control("4.7.4")
       [] p = "source/format" -> Lines(<<<<"3.0", "(", "quilt", ")">>>>)
       [] p = "copyright" -> Copyright [] p = "watch" -> Watch
       [] p = "patches/series" -> Series [] p = "tests/control" -> TestsControl
       [] p = "rules" -> Rules [] p = "postinst" -> Lines(<<>>) [] p = "gbp.conf" -> Gbp],
   patches |-> [l \in {<<"fix.patch">>} |-> Fix],
   exec |-> {"rules", "postinst"}]

(* What a file may be changed to, the other versions of a control file and *)
(* of a changelog among them.                                              *)
Versions == DOMAIN ParsedVersions \cup {"unknown"}
Alternatives(p) ==
  {Binary, Lines(<<<<"#", "x">>, <<"x">>>>)} \cup
  CASE p = "changelog" ->
         {Lines(<<<<>>>>), Changelog(Header(<<"hello">>, <<"1.0-2">>)),
          Changelog(Header(<<"hallo">>, <<"1.0-1">>)), Changelog(Header(<<>>, <<"1.0-1">>)),
          Changelog(<<"hello", "(", "1.0-1", ")", "unstable", ";", "urgency=">>),
          Lines(<<<<"hello", "(", "1.0-1", ")">>, SignedBy("Ann", <<>>, <<>>)>>)}
    [] p = "control" ->
         {Control(v) : v \in Versions} \cup
         {Stanzas(<<>>), Stanzas(<<BinaryParagraph>>),
          Stanzas(<<Without(SourceParagraph("4.7.4"), "Standards-Version"), ArchParagraph>>),
          Stanzas(<<[SourceParagraph("4.6.0") EXCEPT !["Source"] = <<"hallo">>]>>),
          Stanzas(<<[SourceParagraph("4.7.0") EXCEPT !["Source"] = <<>>]>>)}
    [] p = "source/format" -> {Lines(<<<<>>>>), Lines(<<<<"3.0", "(", "native", ")">>>>)}
    [] p = "patches/series" -> {Lines(<<<<"fix.patch">>, <<"gone.patch">>>>)}
    [] OTHER -> {}

MCRevisions(t) ==
  {[t EXCEPT !.files = [@ EXCEPT ![p] = c]] :
     <<p, c>> \in UNION {{p} \X Alternatives(p) : p \in DOMAIN t.files}} \cup
  {[t EXCEPT !.files = [q \in DOMAIN @ \ {p} |-> @[q]]] : p \in DOMAIN t.files} \cup
  {[t EXCEPT !.files = @ @@ [q \in {p} |-> Lines(<<>>)]] :
     p \in {"triggers", "preinst", "gbp-dch.conf", "helper.sh"}} \cup
  {[t EXCEPT !.debian = ~@], [t EXCEPT !.exec = {}], [t EXCEPT !.patches = <<>>],
   [t EXCEPT !.patches = [l \in {<<"fix.patch">>} |-> Binary]]}

(* What the theorem about the tools assumes of Revisions, of the trees here. *)
ASSUME RevisionsAssumption ==
  \A t \in {Sound} \cup MCRevisions(Sound) : \A u \in MCRevisions(t) : IsTree(u)

Answer(name) == [hermetic_report EXCEPT !.source_package = name]
MCHelperRuns ==
  {NoHelper} \cup {[kind |-> k, report |-> hermetic_report] : k \in HelperErrors} \cup
  {[kind |-> "report", report |-> Answer(n)] : n \in {<<"hello">>, <<"hallo">>}}

(* The tools know nothing of each other: one order of them will do. *)
Order == <<"debian.issue.bts_snapshot", "debian.inspect.source_preparation",
           "debian.inspect.source_analysis", "debian.inspect.maintenance_context",
           "debian.policy.delta_review">>
InOrder == \A i, j \in DOMAIN Order :
             i < j /\ result'[Order[j]] # {} => result'[Order[i]] # {}
=============================================================================

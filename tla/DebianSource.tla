---------------------------- MODULE DebianSource ----------------------------
(***************************************************************************)
(* What ironmaint-debian-tool reads in the debian/ directory of a source   *)
(* tree: its file readers and parsers, shared between the subcommands.     *)
(*                                                                         *)
(* A file is text (lines of words and signs), control stanzas (what the    *)
(* deb822 parser makes of one that parses), or "binary", which             *)
(* read_to_string refuses.  A tree is                                      *)
(*   debian    whether debian/ is a directory                              *)
(*   files     the regular files, by their path under debian/              *)
(*   patches   the files in debian/patches that a series line may name     *)
(*   exec      the files with an executable bit                            *)
(* The order of read_dir is of no account: other_scripts is a set.         *)
(***************************************************************************)
EXTENDS DebianReports, SequencesExt

Lines(ls) == [kind |-> "text", lines |-> ls]
Stanzas(ps) == [kind |-> "stanzas", paragraphs |-> ps]
Binary == [kind |-> "binary"]

NestedFiles == {"source/format", "patches/series", "tests/control"}

(* What a file holds, and what a tree is. *)
IsFile(file) ==
  \/ file = Binary
  \/ file.kind = "text" /\ file.lines \in Seq(Text)
  \/ /\ file.kind = "stanzas" /\ file.paragraphs \in Seq(ToSet(file.paragraphs))
     /\ \A p \in ToSet(file.paragraphs) : \A key \in DOMAIN p : p[key] \in Text
IsTree(tree) ==
  /\ DOMAIN tree = {"debian", "files", "patches", "exec"}
  /\ tree.debian \in BOOLEAN /\ DOMAIN tree.files \subseteq STRING
  /\ \A p \in DOMAIN tree.files : IsFile(tree.files[p])
  /\ \A l \in DOMAIN tree.patches : IsFile(tree.patches[l])

is_file(tree, p) == tree.debian /\ p \in DOMAIN tree.files
Readable(tree, p) == is_file(tree, p) /\ tree.files[p] # Binary
LinesOf(file) == IF file.kind = "text" THEN file.lines ELSE <<>>

(* Deb822::from_str, which refuses a text that is not made of stanzas. *)
Deb822(tree, p) ==
  IF Readable(tree, p) /\ tree.files[p].kind = "stanzas"
  THEN {tree.files[p].paragraphs} ELSE {}

Words(line, from, to) == SubSeq(line, from, to)
FirstWord(line) == IF line = <<>> THEN <<>> ELSE <<line[1]>>
Has(line, word) == \E i \in DOMAIN line : line[i] = word
(* str::find and split_once on a word: its first place in the line. *)
Find(line, word) ==
  CHOOSE i \in DOMAIN line : line[i] = word /\ \A j \in 1..(i - 1) : line[j] # word
Before(line, word) == Words(line, 1, Find(line, word) - 1)
After(line, word) == Words(line, Find(line, word) + 1, Len(line))
StartsWith(line, word) == line # <<>> /\ line[1] = word
Ignored(line) == line = <<>> \/ line[1] = "#"

(* What of s is in S, in the order of s: SelectSeq for a set.  The lines of *)
(* a file that are not ignored, the lines that start with a word.          *)
Only(s, S) ==
  LET kept[n \in 0..Len(s)] ==
        IF n = 0 THEN <<>>
        ELSE IF s[n] \in S THEN Append(kept[n - 1], s[n]) ELSE kept[n - 1]
  IN  kept[Len(s)]
Read(lines) == Only(lines, {l \in ToSet(lines) : ~Ignored(l)})
Starting(lines, word) == Only(lines, {l \in ToSet(lines) : StartsWith(l, word)})

-----------------------------------------------------------------------------
(* Stanzas. *)

field(para, key) == IF key \in DOMAIN para THEN para[key] ELSE <<>>

opt_field(para, key) == IF field(para, key) = <<>> THEN {} ELSE {para[key]}

(* Entries between commas that no parenthesis encloses, none of them empty. *)
split_comma_list(text) ==
  LET Depth(i) == Cardinality({j \in 1..i : text[j] = "("})
                    - Cardinality({j \in 1..i : text[j] = ")"})
      Cuts == {i \in DOMAIN text : text[i] = "," /\ Depth(i) = 0}
      Ends == Only([n \in 1..(Len(text) + 1) |-> n], Cuts \cup {Len(text) + 1})
      Entry(n) == SubSeq(text, IF n = 1 THEN 1 ELSE Ends[n - 1] + 1, Ends[n] - 1)
  IN  Only([n \in DOMAIN Ends |-> Entry(n)], Seq(STRING) \ {<<>>})

ListField(para, key) == split_comma_list(field(para, key))

Numerals == [w \in {"4", "12", "13"} |->
               CASE w = "4" -> 4 [] w = "12" -> 12 [] w = "13" -> 13]
(* str::parse::<u32>, on the text it is given. *)
ParseNumber(text) ==
  IF Len(text) = 1 /\ text[1] \in DOMAIN Numerals THEN {Numerals[text[1]]} ELSE {}

parse_debhelper_compat(entry) ==
  IF ~StartsWith(entry, "debhelper-compat") \/ ~Has(entry, "(") THEN {}
  ELSE LET rest == After(entry, "(")
       IN  IF ~Has(rest, ")") \/ ~Has(Before(rest, ")"), "=") THEN {}
           ELSE ParseNumber(After(Before(rest, ")"), "="))

-----------------------------------------------------------------------------
(* debian/changelog.  Both subcommands that read it have this parser. *)

parse_changelog_trailer(after) ==
  IF ~Has(after, ";") THEN [distribution |-> after, urgency |-> <<>>]
  ELSE [distribution |-> Before(after, ";"),
        urgency |-> IF Has(After(after, ";"), "urgency=")
                    THEN FirstWord(After(After(after, ";"), "urgency="))
                    ELSE <<>>]

parse_changelog_header(line) ==
  IF ~Has(line, "(") \/ ~Has(After(line, "("), ")") THEN {}
  ELSE LET source == Before(line, "(")
           version == Before(After(line, "("), ")")
           rest == parse_changelog_trailer(After(After(line, "("), ")"))
       IN  IF source = <<>> \/ version = <<>> THEN {}
           ELSE {[source |-> source, version |-> version,
                  distribution |-> rest.distribution, urgency |-> rest.urgency]}

(* The header is the first line that is not blank. *)
parse_changelog_first_entry(lines) ==
  LET filled == Only(lines, ToSet(lines) \ {<<>>})
  IN  IF filled = <<>> THEN {} ELSE parse_changelog_header(filled[1])

(* Maintainer and date of the first line that starts with two dashes, with *)
(* two spaces between them.                                                *)
parse_changelog_full(lines) ==
  LET header == parse_changelog_first_entry(lines)
      signed == Starting(lines, "--")
      line == IF signed = <<>> THEN <<>> ELSE Tail(signed[1])
      m == IF Has(line, "  ") THEN Before(line, "  ") ELSE line
      d == IF Has(line, "  ") THEN After(line, "  ") ELSE <<>>
      Opt(t) == IF t = <<>> THEN {} ELSE {t}
  IN  {[source |-> h.source, version |-> h.version,
        distribution |-> h.distribution, urgency |-> h.urgency,
        maintainer |-> Opt(m), timestamp |-> Opt(d)] : h \in header}

(* A read fails as Infra, a parse as Fail. *)
read_changelog_full(tree) ==
  IF ~Readable(tree, "changelog")
  THEN [identity |-> {}, diagnostics |-> <<"E_CHANGELOG_UNREADABLE">>]
  ELSE LET identity == parse_changelog_full(LinesOf(tree.files["changelog"]))
       IN  [identity |-> identity,
            diagnostics |-> IF identity = {} THEN <<"E_CHANGELOG_UNPARSABLE">> ELSE <<>>]

-----------------------------------------------------------------------------
(* debian/control, as source-analysis reads it. *)

MaintainersOf(source) ==
  [maintainer |-> field(source, "Maintainer"),
   uploaders |-> ListField(source, "Uploaders")]

SourceMetadataOf(source) ==
  [k \in DOMAIN SourceMetadataFields |-> opt_field(source, SourceMetadataFields[k])]

BuildMetadataOf(source) ==
  LET depends == ListField(source, "Build-Depends")
      compat == Only([i \in DOMAIN depends |-> parse_debhelper_compat(depends[i])],
                     SUBSET Nat \ {{}})
  IN  [build_depends |-> depends,
       build_depends_indep |-> ListField(source, "Build-Depends-Indep"),
       build_conflicts |-> ListField(source, "Build-Conflicts"),
       debhelper_compat |-> IF compat = <<>> THEN {} ELSE compat[1]]

BinaryPackageOf(para) ==
  [name |-> field(para, "Package"),
   architecture |-> IF "Architecture" \in DOMAIN para
                    THEN para["Architecture"] ELSE <<"any">>,
   multi_arch |-> opt_field(para, "Multi-Arch"),
   depends |-> ListField(para, "Depends"), provides |-> ListField(para, "Provides"),
   breaks |-> ListField(para, "Breaks"), conflicts |-> ListField(para, "Conflicts"),
   replaces |-> ListField(para, "Replaces"),
   maintainer |-> opt_field(para, "Maintainer"),
   description |-> opt_field(para, "Description")]

NoControl == [maintainers |-> NoMaintainers, source_metadata |-> NoSourceMetadata,
              build_metadata |-> NoBuildMetadata, binary_packages |-> <<>>]

(* An empty Source field will do; a paragraph without Package is passed over. *)
parse_control(paragraphs) ==
  LET source == paragraphs[1]
      named == Only(Tail(paragraphs),
                    {p \in ToSet(paragraphs) : "Package" \in DOMAIN p})
  IN  IF paragraphs = <<>> \/ "Source" \notin DOMAIN source THEN {}
      ELSE {[maintainers |-> MaintainersOf(source),
             source_metadata |-> SourceMetadataOf(source),
             build_metadata |-> BuildMetadataOf(source),
             binary_packages |-> [i \in DOMAIN named |-> BinaryPackageOf(named[i])]]}

read_control(tree) ==
  LET parsed == UNION {parse_control(ps) : ps \in Deb822(tree, "control")}
  IN  IF ~Readable(tree, "control")
      THEN [parts |-> NoControl, diagnostics |-> <<"E_CONTROL_UNREADABLE">>]
      ELSE IF parsed = {}
           THEN [parts |-> NoControl, diagnostics |-> <<"E_CONTROL_UNPARSABLE">>]
           ELSE [parts |-> CHOOSE p \in parsed : TRUE, diagnostics |-> <<>>]

-----------------------------------------------------------------------------
(* The other files. *)

read_source_format(tree) ==
  LET text == IF Readable(tree, "source/format")
              THEN FlattenSeq(LinesOf(tree.files["source/format"])) ELSE <<>>
  IN  CASE text = <<"3.0", "(", "quilt", ")">> -> [kind |-> "ThreeZeroQuilt", text |-> <<>>]
        [] text = <<"3.0", "(", "native", ")">> -> [kind |-> "ThreeZeroNative", text |-> <<>>]
        [] OTHER -> [kind |-> "OtherLegacy", text |-> text]

SchemeWords == {"http://", "https://"}

(* The paragraphs in which a field says something. *)
Stating(paragraphs, key) ==
  Only(paragraphs, {p \in ToSet(paragraphs) : opt_field(p, key) # {}})

(* The licences in the order they first appear in. *)
parse_copyright(paragraphs) ==
  LET format == IF paragraphs = <<>> THEN {} ELSE opt_field(paragraphs[1], "Format")
      licensed == Stating(paragraphs, "License")
      licenses == [i \in DOMAIN licensed |-> field(licensed[i], "License")]
      First(i) == \A j \in 1..(i - 1) : licenses[j] # licenses[i]
      firsts == Only([i \in DOMAIN licenses |-> i], {i \in DOMAIN licenses : First(i)})
  IN  [machine_readable |-> \E f \in format : f[1] \in SchemeWords,
       format_declaration |-> format,
       files_stanza_count |-> Len(Stating(paragraphs, "Files")),
       license_identifiers |-> [n \in DOMAIN firsts |-> licenses[firsts[n]]]]

read_copyright(tree) ==
  LET parsed == Deb822(tree, "copyright")
  IN  IF parsed = {} THEN NoCopyright ELSE parse_copyright(CHOOSE p \in parsed : TRUE)

LastOf(lines, word) ==
  LET with == Starting(lines, word)
  IN  IF with = <<>> THEN {} ELSE {Tail(with[Len(with)])}

(* The last version=, which may not parse, and the first line that is none *)
(* of the directives.                                                      *)
parse_watch(lines) ==
  LET directives == {"version=", "pgpsigurlmangle=", "opts="}
      read == Read(lines)
      urls == Only(read, {l \in ToSet(read) : l[1] \notin directives})
      version == UNION {ParseNumber(v) : v \in LastOf(read, "version=")}
  IN  IF urls = <<>> THEN {}
      ELSE {[version |-> v, url_pattern |-> urls[1],
             pgpsig |-> LastOf(read, "pgpsigurlmangle=")] : v \in version}

read_watch(tree) ==
  IF Readable(tree, "watch") THEN parse_watch(LinesOf(tree.files["watch"])) ELSE {}

NoHeader(name) == [name |-> name, description |-> {}, author |-> {},
                   forwarded |-> {}, last_update |-> {}]

DiffStarts == {"---", "diff", "Index"}

(* The header ends at a blank line or where the diff starts.  A line with  *)
(* a colon opens a key, wherever the colon is; others continue the value.  *)
(* A later value of a key replaces an earlier one, an empty one unsets it. *)
read_patch(name, lines) ==
  LET ends == {i \in DOMAIN lines : lines[i] = <<>> \/ lines[i][1] \in DiffStarts}
      last == IF ends = {} THEN Len(lines)
              ELSE (CHOOSE i \in ends : \A j \in ends : i <= j) - 1
      keys == {i \in 1..last : Has(lines[i], ":")}
      NextKey(i) == {j \in keys : j > i}
      EndOf(i) == IF NextKey(i) = {} THEN last
                  ELSE (CHOOSE j \in NextKey(i) : \A k \in NextKey(i) : j <= k) - 1
      ValueAt(i) == After(lines[i], ":") \o FlattenSeq(SubSeq(lines, i + 1, EndOf(i)))
      assign_dep3(key) ==
        LET at == {i \in keys : Before(lines[i], ":") = <<key>>}
        IN  {ValueAt(i) : i \in {j \in at : \A k \in at : k <= j}} \ {<<>>}
  IN  [name |-> name, description |-> assign_dep3("Description"),
       author |-> assign_dep3("Author"), forwarded |-> assign_dep3("Forwarded"),
       last_update |-> assign_dep3("Last-Update")]

(* A file the series names and the tree has not is a patch without header. *)
read_patches(tree) ==
  LET listed == IF Readable(tree, "patches/series")
                THEN Read(LinesOf(tree.files["patches/series"])) ELSE <<>>
      missing == Only(listed, ToSet(listed) \ DOMAIN tree.patches)
      Patch(l) == IF l \in DOMAIN tree.patches /\ tree.patches[l] # Binary
                 THEN read_patch(l, LinesOf(tree.patches[l])) ELSE NoHeader(l)
  IN  [patches |-> [i \in DOMAIN listed |-> Patch(listed[i])],
       diagnostics |-> [i \in DOMAIN missing |-> "E_PATCH_FILE_MISSING"]]

parse_tests_control(paragraphs) ==
  LET named == Stating(paragraphs, "Tests")
      Test(p) == [name |-> p["Tests"][1],
                  command |-> IF Len(p["Tests"]) = 1 THEN {} ELSE {Tail(p["Tests"])},
                  restrictions |-> field(p, "Restrictions"),
                  features |-> field(p, "Features"),
                  depends |-> ListField(p, "Depends")]
  IN  [i \in DOMAIN named |-> Test(named[i])]

read_tests_control(tree) ==
  LET parsed == Deb822(tree, "tests/control")
  IN  IF parsed = {} THEN <<>> ELSE parse_tests_control(CHOOSE p \in parsed : TRUE)

parse_dh_style(lines) ==
  /\ lines # <<>> /\ StartsWith(lines[1], "#!/usr/bin/make")
  /\ \E i \in DOMAIN lines : Has(lines[i], "dh $@")

parse_override_targets(lines) ==
  LET overrides == Only(Starting(lines, "override_"), {l \in ToSet(lines) :
                          Has(l, ":") /\ Before(Tail(l), ":") # <<>>})
  IN  [i \in DOMAIN overrides |-> Before(Tail(overrides[i]), ":")]

executable_bit(tree, p) == p \in tree.exec

read_rules(tree) ==
  IF ~Readable(tree, "rules") THEN NoRules
  ELSE [executable |-> executable_bit(tree, "rules"),
        dh_style |-> parse_dh_style(LinesOf(tree.files["rules"])),
        override_targets |-> parse_override_targets(LinesOf(tree.files["rules"]))]

read_script_presence(tree, p) ==
  IF is_file(tree, p) THEN {[executable |-> executable_bit(tree, p)]} ELSE {}

CanonicalScripts == {"preinst", "postinst", "prerm", "postrm"}
HiddenFiles == {".gitignore"}

(* Whatever else lies in debian/ counts as a script. *)
read_maintainer_scripts(tree) ==
  LET known == CanonicalScripts \cup HiddenFiles \cup
        {"rules", "control", "changelog", "copyright", "source", "patches",
         "tests", "watch", "triggers", "gbp.conf", "gbp-dch.conf"}
      others == DOMAIN tree.files \ (known \cup NestedFiles)
  IN  [preinst |-> read_script_presence(tree, "preinst"),
       postinst |-> read_script_presence(tree, "postinst"),
       prerm |-> read_script_presence(tree, "prerm"),
       postrm |-> read_script_presence(tree, "postrm"),
       triggers |-> IF is_file(tree, "triggers") THEN {[executable |-> FALSE]} ELSE {},
       other_scripts |->
         {[name |-> n, presence |-> [executable |-> executable_bit(tree, n)]] : n \in others}]

(* The keys of [BUILD-DEFAULTS]; the last value of a key stands. *)
parse_gbp_conf_branch(lines) ==
  LET read == Only(lines, {l \in ToSet(lines) : ~Ignored(l) /\ l[1] # ";"})
      HeadOf(i) == {j \in 1..i : StartsWith(read[j], "[")}
      InSection(i) == /\ HeadOf(i) # {}
                      /\ LET h == CHOOSE j \in HeadOf(i) : \A k \in HeadOf(i) : k <= j
                         IN  h # i /\ read[h] = <<"[", "BUILD-DEFAULTS", "]">>
      Sets(i, key) == InSection(i) /\ Has(read[i], "=") /\ Before(read[i], "=") = <<key>>
      Value(key) == LET at == {i \in DOMAIN read : Sets(i, key)}
                    IN  {After(read[i], "=") : i \in {j \in at : \A k \in at : k <= j}}
      out == [k \in DOMAIN GbpBranchFields |-> Value(GbpBranchFields[k])]
  IN  IF \A k \in DOMAIN out : out[k] = {} THEN {} ELSE {out}

read_gbp_config(tree) ==
  [gbp_conf_present |-> is_file(tree, "gbp.conf"),
   gbp_dch_conf_present |-> is_file(tree, "gbp-dch.conf"),
   branch_settings |-> IF Readable(tree, "gbp.conf")
                       THEN parse_gbp_conf_branch(LinesOf(tree.files["gbp.conf"]))
                       ELSE {}]

-----------------------------------------------------------------------------
(* The parsers of maintenance-context (src/parsers). *)

parse_vcs_metadata(paragraphs) ==
  LET Opt(key) == IF paragraphs = <<>> THEN {} ELSE opt_field(paragraphs[1], key)
  IN  [vcs_git |-> Opt("Vcs-Git"), vcs_browser |-> Opt("Vcs-Browser"),
       homepage |-> Opt("Homepage")]

read_vcs_metadata(tree) ==
  LET parsed == Deb822(tree, "control")
  IN  parse_vcs_metadata(IF parsed = {} THEN <<>> ELSE CHOOSE p \in parsed : TRUE)

(* The Source of the first paragraph that has one. *)
parse_upstream_metadata(paragraphs) ==
  LET Opt(key) == IF paragraphs = <<>> THEN {} ELSE opt_field(paragraphs[1], key)
      with == Stating(paragraphs, "Source")
  IN  [upstream_name |-> Opt("Upstream-Name"),
       upstream_contact |-> Opt("Upstream-Contact"),
       upstream_url |-> IF with = <<>> THEN {} ELSE opt_field(with[1], "Source")]

read_upstream_metadata(tree) ==
  LET parsed == Deb822(tree, "copyright")
  IN  parse_upstream_metadata(IF parsed = {} THEN <<>> ELSE CHOOSE p \in parsed : TRUE)
=============================================================================

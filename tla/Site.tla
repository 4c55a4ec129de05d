--------------------------------- MODULE Site ---------------------------------
(***************************************************************************)
(* The pages, templates and public files of an app: as lux::App finds them *)
(* in the file system (src/luxweb_core/app.cpp, template_engine.cpp), and  *)
(* as luxweb build compiles them into the executable                       *)
(* (generate_embedded_assets in src/luxweb_cli/main.cpp).                  *)
(*                                                                         *)
(* A path is a sequence of names, a name the sequence of its parts between *)
(* dots: pages/index.html is <<<<"pages">>, <<"index", "html">>>>.  Paths  *)
(* of templates and routes start from templates/ and from /, those of      *)
(* public files from public/.                                              *)
(***************************************************************************)
EXTENDS Integers, Sequences, SequencesExt, FiniteSetsExt

CONSTANTS
  Templates,  \* the files there may be under templates/
  Layout,     \* what each of them extends, as it writes it, or NoPath; a
              \* layout extends nothing
  Public,     \* the files there may be under public/
  Bodies,     \* what they may hold: sequences of bytes
  Mains,      \* what main may do before it calls run: sequences of Calls
  MaxEdits,   \* bound on the files created, written and deleted
  NoPath,
  Failed,     \* a 404, or an exception that dispatch makes a 500
  NoBundle    \* luxweb build has not run

Up == <<"..">>
PagesDir == <<<<"pages">>>>

Paths == Seq(Seq(STRING))

Calls == [call : {"add_template_path", "pages"}, dir : Paths, mount : Paths]

(* A file has a name, and no directory it is in, nor itself, is called ..; *)
(* what main names are directories.                                        *)
ASSUME SiteAssumption ==
  /\ \A t \in Templates :
       t \in Paths /\ t # <<>> /\ \A i \in DOMAIN t : t[i] \notin {Up, <<>>}
  /\ \A main \in Mains :
       main \in Seq(Calls) /\ \A i \in DOMAIN main : main[i].dir \notin Templates
  /\ DOMAIN Layout = Templates /\ MaxEdits \in Nat
  /\ NoPath \notin Templates /\ Failed \notin Seq(Templates)
  /\ Bodies \subseteq Seq(0 .. 255)

VARIABLES
  files,        \* the templates there are
  public,       \* what each public file holds that there is
  todo,         \* what main has still to do
  searchPaths,  \* TemplateEngine::search_paths_
  routes,       \* the GET handlers of pages; file is history
  bundle,       \* the embedded assets of the last build; files and public are history
  edits         \* how many files were created, written or deleted

vars == <<files, public, todo, searchPaths, routes, bundle, edits>>

-----------------------------------------------------------------------------
(* A dot at the beginning of a name does not begin an extension.           *)
HasExtension(path) ==
  \/ Len(Last(path)) > 2
  \/ Len(Last(path)) = 2 /\ Last(path)[1] # ""

Extension(path) == IF HasExtension(path) THEN Last(Last(path)) ELSE ""

IsPage(path) == Extension(path) = "html"

TrimExtension(path) ==
  IF HasExtension(path) THEN Append(Front(path), Front(Last(path))) ELSE path

(* normalize_template_name, and what render appends: a name with a dot in  *)
(* it has an extension, whatever it is.                                    *)
WithHtml(path) ==
  IF HasExtension(path) THEN path ELSE Append(Front(path), Append(Last(path), "html"))

(* lexically_relative of a path that is_under base. *)
Relative(path, base) == SubSeq(path, Len(base) + 1, Len(path))

JoinRoute(mount, relative) ==
  mount \o (IF Last(relative) = <<"index">> THEN Front(relative) ELSE relative)

(* How many directories a path in a template climbs. *)
Ups(path) == Max({n \in 0 .. Len(path) : \A i \in 1 .. n : path[i] = Up})

-----------------------------------------------------------------------------
(* TemplateEngine::render over the file system.  The first search path     *)
(* that has the file wins; inja looks for a layout from the directory of   *)
(* the template that extends it.  A page is shown as its files.            *)
Compose(file, layout, there) ==
  CASE Layout[file] = NoPath -> <<file>>
    [] Layout[file] # NoPath /\ layout \in there -> <<file, layout>>
    [] OTHER -> Failed

LayoutFile(file) ==
  LET up == Ups(Layout[file])
      dir == Front(file)
  IN  IF up > Len(dir) THEN NoPath
      ELSE SubSeq(dir, 1, Len(dir) - up) \o Relative(Layout[file], [i \in 1 .. up |-> Up])

ShowFile(there, file) == Compose(file, LayoutFile(file), there)

Render(there, paths, name) ==
  LET found == {i \in DOMAIN paths : paths[i] \o WithHtml(name) \in there}
  IN  IF found = {} THEN Failed ELSE ShowFile(there, paths[Min(found)] \o WithHtml(name))

(* pages() adds no directory that a search path is over. *)
Mutant_OnlyItself(paths, dir) == Contains(paths, dir)

Covered(paths, dir) == \E i \in DOMAIN paths : IsPrefix(paths[i], dir)

(* The name pages() gives to the template of a file: its path from the     *)
(* first search path it is under.                                          *)
TemplateName(paths, file) ==
  LET over == {i \in DOMAIN paths : IsPrefix(paths[i], file)}
  IN  TrimExtension(Relative(file, paths[Min(over)]))

(* The handlers pages() registers for the files under dir. *)
Mutant_FromDirectory(there, paths, dir, mount) ==
  {[route |-> JoinRoute(mount, TrimExtension(Relative(f, dir))),
    template |-> TrimExtension(Relative(f, dir)), file |-> f] :
     f \in {g \in there : IsPrefix(dir, g) /\ IsPage(g)}}

PageHandlers(there, paths, dir, mount) ==
  {[route |-> JoinRoute(mount, TrimExtension(Relative(f, dir))),
    template |-> TemplateName(paths, f), file |-> f] :
     f \in {g \in there : IsPrefix(dir, g) /\ IsPage(g)}}

(* static_files: the file as it is now, and a type by its extension. *)
Types == {"css", "js", "json", "svg", "png", "jpg", "jpeg"}

MimeFor(path) == IF Extension(path) \in Types THEN Extension(path) ELSE "octet-stream"

StaticFile(there, path) == [type |-> MimeFor(path), body |-> there[path]]

-----------------------------------------------------------------------------
(* TemplateEngine::render of an embedded template; the layout is the first *)
(* of the candidates of the include callback that is embedded.  The binary *)
(* runs where there are no templates: what render and inja look for in the *)
(* file system besides is not found, and left out.                         *)
Mutant_NoStripped(requested) == <<WithHtml(requested), WithHtml(TrimExtension(requested))>>

Candidates(requested) ==
  <<WithHtml(requested), WithHtml(TrimExtension(requested)),
    WithHtml(SubSeq(requested, Ups(requested) + 1, Len(requested)))>>

RenderEmbedded(embedded, name) ==
  LET file == WithHtml(name)
      candidates == IF Layout[file] = NoPath THEN <<>> ELSE Candidates(Layout[file])
      found == {i \in DOMAIN candidates : candidates[i] \in embedded}
      layout == IF found = {} THEN NoPath ELSE candidates[Min(found)]
  IN  IF file \notin embedded THEN Failed ELSE Compose(file, layout, embedded)

EmbeddedHandlers(names) ==
  {LET stem == TrimExtension(name)
   IN  [route |-> JoinRoute(<<>>, IF stem[1] = PagesDir[1] THEN Tail(stem) ELSE stem),
        template |-> name] : name \in names}

(* A string literal is all bytes of the file, and becomes a std::string    *)
(* through a const char*, which ends at the first zero.                    *)
Literal(bytes) ==
  LET zero == SelectInSeq(bytes, LAMBDA b : b = 0)
  IN  IF zero = 0 THEN bytes ELSE SubSeq(bytes, 1, zero - 1)

EmbeddedMimeFor(path) ==
  IF Extension(path) \in Types \cup {"webp"} THEN Extension(path) ELSE "octet-stream"

EmbeddedFile(there, path) == [type |-> EmbeddedMimeFor(path), body |-> Literal(there[path])]

-----------------------------------------------------------------------------
Init ==
  /\ files \in SUBSET Templates
  /\ public \in UNION {[F -> Bodies] : F \in SUBSET Public}
  /\ todo \in Mains
  /\ searchPaths = <<>>
  /\ routes = {}
  /\ bundle = NoBundle
  /\ edits = 0

(* main: add_template_path(dir) *)
AddTemplatePath ==
  /\ todo # <<>> /\ Head(todo).call = "add_template_path"
  /\ searchPaths' = Append(searchPaths, Head(todo).dir)
  /\ todo' = Tail(todo)
  /\ UNCHANGED <<files, public, routes, bundle, edits>>

(* main: pages(dir, mount).  A directory without files may be missing. *)
Pages ==
  /\ todo # <<>> /\ Head(todo).call = "pages"
  /\ LET dir == Head(todo).dir
     IN  /\ \/ Covered(searchPaths, dir) /\ UNCHANGED searchPaths
            \/ ~Covered(searchPaths, dir) /\ searchPaths' = Append(searchPaths, dir)
            \/ ~(\E f \in files : IsPrefix(dir, f)) /\ UNCHANGED searchPaths
         /\ routes' = routes \cup PageHandlers(files, searchPaths', dir, Head(todo).mount)
  /\ todo' = Tail(todo)
  /\ UNCHANGED <<files, public, bundle, edits>>

(* The process is started again. *)
Restart ==
  /\ todo' \in Mains
  /\ searchPaths' = <<>>
  /\ routes' = {}
  /\ UNCHANGED <<files, public, bundle, edits>>

(* luxweb build: the handlers of embedded_pages, the templates and the     *)
(* public files in one generated file.                                     *)
Build ==
  /\ bundle' = [templates |-> {f \in files : IsPage(f)},
                routes |-> EmbeddedHandlers({f \in files : IsPage(f) /\ IsPrefix(PagesDir, f)}),
                assets |-> [f \in DOMAIN public |-> EmbeddedFile(public, f)],
                files |-> files, public |-> public]
  /\ UNCHANGED <<files, public, todo, searchPaths, routes, edits>>

(* The developer, while an app may be running. *)
EditTemplate ==
  /\ edits < MaxEdits /\ edits' = edits + 1
  /\ \E f \in Templates : files' = SymDiff(files, {f})
  /\ UNCHANGED <<public, todo, searchPaths, routes, bundle>>

EditPublic ==
  /\ edits < MaxEdits /\ edits' = edits + 1
  /\ \E f \in Public, F \in SUBSET Public :
       /\ SymDiff(F, DOMAIN public) \subseteq {f}
       /\ \E body \in Bodies : public' = [g \in F |-> IF g = f THEN body ELSE public[g]]
  /\ UNCHANGED <<files, todo, searchPaths, routes, bundle>>

Next == AddTemplatePath \/ Pages \/ Restart \/ Build \/ EditTemplate \/ EditPublic

Spec == Init /\ [][Next]_vars

-----------------------------------------------------------------------------
Handlers == [route : Paths, template : Paths, file : Templates]

TypeOK ==
  /\ files \subseteq Templates
  /\ DOMAIN public \subseteq Public /\ \A f \in DOMAIN public : public[f] \in Bodies
  /\ \E main \in Mains : IsSuffix(todo, main)
  /\ searchPaths \in Seq(Paths)
  /\ \A j \in DOMAIN searchPaths : \A i \in 1 .. j - 1 : ~IsPrefix(searchPaths[i], searchPaths[j])
  /\ routes \subseteq Handlers
  /\ bundle = NoBundle \/ bundle.templates \cup bundle.files \subseteq Templates
  /\ edits \in 0 .. MaxEdits

(* FRAMEWORK.md:34-38: a page that pages() has found is shown at its       *)
(* route, whichever template paths and directories of pages came before or *)
(* after it and whatever was created or deleted since, as long as the page *)
(* is there itself.                                                        *)
PageIsItself ==
  \A h \in routes : h.file \in files =>
    Render(files, searchPaths, h.template) = ShowFile(files, h.file)

(* FRAMEWORK.md:135: the binary of luxweb build serves the app without the *)
(* directories.  Each page and public file there was at that time has the  *)
(* route it has in a run from the file system, and the same answer.        *)
BundleServesTheApp ==
  bundle # NoBundle =>
    LET dev == PageHandlers(bundle.files, <<<<>>>>, PagesDir, <<>>)
    IN  /\ {h.route : h \in dev} = {h.route : h \in bundle.routes}
        /\ \A h \in dev, e \in bundle.routes : WithHtml(h.template) = e.template =>
             /\ h.route = e.route
             /\ Render(bundle.files, <<<<>>>>, h.template) = RenderEmbedded(bundle.templates, e.template)
        /\ \A f \in DOMAIN bundle.public : bundle.assets[f] = StaticFile(bundle.public, f)

-----------------------------------------------------------------------------
(* What a project is like.  No name has two dots,                          *)
OneDot == \A t \in Templates : Len(Last(t)) <= 2

(* main adds no template path under one it has added;                      *)
Spread(main) ==
  \A j \in DOMAIN main : \A i \in 1 .. j - 1 :
    main[j].call = "add_template_path" => ~IsPrefix(main[i].dir, main[j].dir)

(* it has one call of pages, or first of all a template path over them;    *)
OneRoot(main) ==
  \A j \in DOMAIN main : main[j].call = "pages" =>
    \/ j = 1
    \/ main[1].call = "add_template_path" /\ IsPrefix(main[1].dir, main[j].dir)

(* a template writes the path of its layout from templates/ on;            *)
RootedLayouts ==
  \A t \in Templates : Layout[t] # NoPath =>
    \E base \in Templates :
      IsPage(base) /\ Layout[t] = [i \in 1 .. Len(t) - 1 |-> Up] \o base

(* and public/ holds texts, and no images that only the bundle can name.   *)
PlainPublic ==
  /\ \A f \in Public : Extension(f) # "webp"
  /\ \A body \in Bodies : \A i \in DOMAIN body : body[i] # 0
=============================================================================

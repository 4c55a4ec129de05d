-------------------------------- MODULE MCSite --------------------------------
(* Small projects for TLC. *)
EXTENDS Site

Html(stem) == <<stem, "html">>
Dir(name) == <<name>>

Base == <<Dir("layouts"), Html("base")>>
AdminDir == <<Dir("admin")>>

(* A layout, pages in two directories and on two levels, *)
ProjectTemplates ==
  {Base, <<Dir("pages"), Html("index")>>, <<Dir("pages"), Html("about")>>,
   <<Dir("pages"), Dir("docs"), Html("index")>>,
   <<Dir("admin"), Html("index")>>}

(* all of which extend it from where they are. *)
ProjectLayout ==
  [t \in ProjectTemplates |->
     IF t = Base THEN NoPath ELSE [i \in 1 .. Len(t) - 1 |-> Up] \o Base]

Style == <<<<"app", "css">>>>
Image == <<<<"logo", "png">>>>

Styles == {Style}
Images == {Image}

Text == {<<65>>, <<66, 10>>}
Binary == {<<137, 80, 0, 13>>}

AddPath(dir) == [call |-> "add_template_path", dir |-> dir, mount |-> <<>>]
AddPages(dir, mount) == [call |-> "pages", dir |-> dir, mount |-> mount]

(* The wirings of the starter and of luxweb new, with a second directory   *)
(* of pages before or after the first, and pages alone.                    *)
CoveredMains ==
  {<<AddPath(<<>>), AddPages(PagesDir, <<>>)>>,
   <<AddPath(<<>>), AddPages(PagesDir, <<>>), AddPages(AdminDir, AdminDir)>>,
   <<AddPath(<<>>), AddPages(AdminDir, AdminDir), AddPages(PagesDir, <<>>)>>,
   <<AddPages(PagesDir, <<>>), AddPath(<<>>)>>}

ASSUME ProjectAssumption ==
  OneDot /\ RootedLayouts /\ \A main \in Mains : Spread(main) /\ OneRoot(main)
=============================================================================

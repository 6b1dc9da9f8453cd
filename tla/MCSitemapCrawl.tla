--------------------------- MODULE MCSitemapCrawl ---------------------------
(***************************************************************************)
(* A site for SitemapCrawl: home leads to itself and to a page that leads  *)
(* to another, and both lead back.                                         *)
(***************************************************************************)
EXTENDS SitemapCrawl

CONSTANTS home, blog, post

Site == {home, blog, post}
SiteLinks == [p \in Site |->
    CASE p = home -> {home, blog} [] p = blog -> {home, post} [] p = post -> {home, blog}]

=============================================================================

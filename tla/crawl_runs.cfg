\* Halted, finished and killed runs, one after the other.
SPECIFICATION FairSpec
CONSTANTS
  home = home
  blog = blog
  post = post
  Job <- Site
  Home = home
  Links <- SiteLinks
  Limit = 2
INVARIANTS
  FetchedOncePerRun
  KnownIsScheduled
  FrontierSaved
PROPERTY Converges

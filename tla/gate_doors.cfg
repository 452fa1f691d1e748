SPECIFICATION MCSpec
CONSTANTS
  NoCode = NoCode
  blog = blog
  shop = shop
  Site = {blog, shop}
  Static = {}
  Code = {c1, c2, c3}
  Crashes = FALSE
  PowerCuts = FALSE
SYMMETRY CodeSymmetry
INVARIANTS Settled Recoverable RestoredServed ClosedStaysClosed OkServedInTheDark
PROPERTIES OthersKept

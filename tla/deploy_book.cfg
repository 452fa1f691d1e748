SPECIFICATION Spec
CONSTANTS
  d1 = d1
  d2 = d2
  ann = ann
  ben = ben
  blog = blog
  shop = shop
  NoDep = NoDep
  NoUpload = NoUpload
  Dep = {d1, d2}
  Slug = {blog, shop}
  SlugOf <- PairApart
  TokenOf <- PairToken
  Upload = {u1, u2}
  Reader = {r1}
  MaxRunning = 1
  MaxAwaiting = 2
  MaxKills = 1
  Overlap = TRUE
  LostAnswers = TRUE
SYMMETRY UploadSymmetry
CHECK_DEADLOCK FALSE
INVARIANTS SuccessIsReal
PROPERTY FollowsBook

CONSTANTS
  None = None
  e = e  s = s  x = x  y = y  v = v
  ce = ce  cs = cs  cx1 = cx1  cx2 = cx2  cx3 = cx3  cy1 = cy1  cy2 = cy2  cv1 = cv1  cv2 = cv2  i = i  l = l
  Uris = {e, s, x, y, v}
  Contents = {ce, cs, cx1, cx2, cx3, cy1, cy2, cv1, cv2}
  Irregular = {i}
  Local = {l}
  Entry = e
  Accession <- MCAccession
  Web <- MCWeb
  Refs <- MCRefs
  Size <- MCSize
  MaxFile = 2
  Budget = 4
  MaxRedirects = 1
  MaxRetries = 1
CHECK_DEADLOCK FALSE
SPECIFICATION DtsSpec
INVARIANTS AnythingElseIsUnresolved

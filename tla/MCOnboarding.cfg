\* Two cars, two photos.
SPECIFICATION MCSpec
CONSTANTS
  MaxCars = 2
  MaxPhotos = 2
  MaxRequests = 3
  MaxDocs = 2
  MaxClicks = 5
INVARIANTS PageCatchesUp OneCarPerPhoto PlateIsOfPhoto
CHECK_DEADLOCK FALSE
